---- MODULE Spec2Model ----
(***************************************************************************)
(* cohesivm: the Experiment state machine (src/cohesivm/experiment.py),    *)
(* its worker processes, and the HDF5-backed Database                      *)
(* (src/cohesivm/database.py) it registers datasets in.                    *)
(*                                                                         *)
(* Strings that the code slices or splits are sequences of symbols; a      *)
(* group or dataset name is such a sequence, a path is a sequence of names.*)
(***************************************************************************)
EXTENDS Integers, Sequences, FiniteSets, TLC

(***************************************************************************)
(* Bounds of the model                                                     *)
(***************************************************************************)
\* the wall clock is read at ticks 1..MaxClock
MaxClock == 5
\* clock ticks per second: a tick that falls on a whole second has no
\* fractional part in its ISO string (scaled down from 10^6 microseconds)
TicksPerSecond == 2
\* worker processes that exist at the same time (running or signalled)
MaxWorkers == 2
\* steps a process still takes after terminate() sent it SIGTERM
MaxSignalLag == 1
\* commands (setup, start, preview, abort) the controller issues in a session
MaxCommands == 4
\* datapoints one run of a measurement puts into the data stream
DatapointsPerRun == 1
\* items the pipe of a queue holds before a write to it blocks
PipeCapacity == 2
\* uses of device.connect() by a caller of one device
MaxConnects == 2

(***************************************************************************)
(* ExperimentState (experiment.py:17-22) and the index sentinels           *)
(***************************************************************************)
ExperimentState == {"INITIAL", "READY", "RUNNING", "FINISHED", "ABORTED"}

\* None where a path or a string is expected; NoSelection is the None default
\* of the selected_pixels argument (the empty list is a selection of its own)
None == << >>

NoSelection == <<"None">>

\* the data_stream of an Experiment built without one (experiment.py:185-186)
FakeQueue == "FakeQueue"

\* a multiprocessing.Queue, as DataStreamABC creates it (data_stream.py:16-17)
Queue == "Queue"

(***************************************************************************)
(* Collaborators handed to Experiment.__init__                             *)
(***************************************************************************)
\* isinstance(channel, cls): cls is in the method resolution order of the
\* channel's class; demo channels deriving from the channel classes of
\* channels.py:161-221, as DemoSourceMeasureUnitChannel of the tests does
ChannelMro ==
    [c \in {"DemoVoltageSMU", "DemoSweepSMU", "DemoVoltmeter", "DemoLCRMeter"} |->
        CASE c = "DemoVoltageSMU" -> {"DemoVoltageSMU", "VoltageSMU", "ChannelABC"}
          [] c = "DemoSweepSMU"   -> {"DemoSweepSMU", "VoltageSMU", "SweepVoltageSMU", "ChannelABC"}
          [] c = "DemoVoltmeter"  -> {"DemoVoltmeter", "Voltmeter", "ChannelABC"}
          [] c = "DemoLCRMeter"   -> {"DemoLCRMeter", "LCRMeter", "ChannelABC"}]

\* isinstance that accepts the channel's own class only
IsInstance_exact(channel, cls) == cls = channel

IsInstance(channel, cls) == cls \in ChannelMro[channel]

\* devices: DeviceABC.channels, a list of channel objects (by class)
Devices ==
    { [name |-> "DemoDevice",  channels |-> <<"DemoSweepSMU", "DemoVoltmeter">>],
      [name |-> "DemoDevice2", channels |-> <<>>],
      [name |-> "DemoDevice3", channels |-> <<"DemoVoltmeter">>] }

\* ChannelABC.settings (channels.py:27-30) of a channel built without
\* settings: the empty dict is replaced by {'default': 0}
ChannelSettings == << << <<"default">>, 0 >> >>

\* DeviceABC.channels_settings (devices/__init__.py:41-44)
DeviceChannelsSettings(device) == [i \in DOMAIN device.channels |-> ChannelSettings]

\* measurements: name, interface_type, required_channels (a list of tuples of
\* classes) and settings (an insertion-ordered dict as a list of pairs of a
\* key, which is a string, and a value);
\* MeasurementABC.__init__ replaces empty settings by {'default': 0}
Measurements ==
    { [name |-> "DemoMeasurement", interface_type |-> "Demo1",
       required_channels |-> << {"VoltageSMU", "Amperemeter"} >>,
       settings |-> << << <<"default">>, 0 >> >>],
      [name |-> "DemoMeasurement2", interface_type |-> "Demo1",
       required_channels |-> << {"VoltageSMU"}, {"LCRMeter", "Amperemeter"} >>,
       settings |-> << << <<"default">>, 0 >> >>],
      [name |-> "DemoMeasurement3", interface_type |-> "Demo1",
       required_channels |-> << {"SweepVoltageSMU"}, { } >>,
       settings |-> << << <<"default">>, 0 >> >>] }

\* interfaces: name, interface_type and pixel_ids
Interfaces ==
    { [name |-> "DemoInterface",  interface_type |-> "Demo1", pixel_ids |-> <<"0", "1">>],
      [name |-> "DemoInterface2", interface_type |-> "Demo2", pixel_ids |-> <<"0", "1">>] }

\* pixel ids a caller may pass: one of the interface, one unknown to it
PixelArgs == {"0", "9"}

\* selected_pixels arguments; NoSelection is the default, all pixel_ids
SelectedArgs == { NoSelection, <<>>, <<"1">>, <<"0", "0">>, <<"0", "9">>, <<"9">> }

\* sample ids, as strings (sequences of symbols)
SampleIds == {<<"S1">>}

\* arrays a measurement may return
DataValues == {"d0", "d1"}

Range(s) == {s[i] : i \in DOMAIN s}

(***************************************************************************)
(* Strings                                                                 *)
(***************************************************************************)
Take(s, n) == SubSeq(s, 1, IF n < Len(s) THEN n ELSE Len(s))

Drop(s, n) == SubSeq(s, n + 1, Len(s))

IsPrefix(p, q) == Len(p) <= Len(q) /\ SubSeq(q, 1, Len(p)) = p

\* str(v) of a non-negative int: its decimal digits
RECURSIVE Str(_)
Str(v) == IF v < 10 THEN << ToString(v) >> ELSE Str(v \div 10) \o << ToString(v % 10) >>

\* s.replace(old, ''): every occurrence of old removed, from the left
RECURSIVE Remove(_, _)
Remove(s, old) ==
    IF s = << >> \/ old = << >> THEN s
    ELSE IF IsPrefix(old, s) THEN Remove(Drop(s, Len(old)), old)
    ELSE << s[1] >> \o Remove(Tail(s), old)

\* datetime.isoformat() of clock tick t: 'YYYY-MM-DDTHH:MM:SS' (one symbol
\* here) followed by '.ffffff' (one symbol) unless the microsecond is 0
Isoformat(t) ==
    LET sec  == t \div TicksPerSecond
        frac == t % TicksPerSecond
    IN  IF frac = 0 THEN << "T" \o ToString(sec) >>
        ELSE << "T" \o ToString(sec), "." \o ToString(frac) >>

(***************************************************************************)
(* Metadata (database.py:112-225)                                          *)
(***************************************************************************)
\* Metadata.parse_settings_hash: one digest per key/value pair, of the text
\* str(k) + str(v), joined by ':'. The digest is taken to be free of
\* collisions: it is the text itself; the joined string is the list of the
\* digests (a hex digest holds no ':')
parse_settings_hash(settings) ==
    [i \in DOMAIN settings |-> settings[i][1] \o Str(settings[i][2])]

\* the terms of Metadata.dcmi: identifier, title and date start as None;
\* description stands for the terms that start with a text
DcmiTerms == {"identifier", "title", "date", "description"}

NoDescription == <<"No description">>

\* no keyword arguments
NoKwargs == << >>

\* Metadata._dcmi (database.py:146-159): a keyword argument replaces the
\* default of the term it names, any other keyword is ignored
MetadataDcmi(kwargs) ==
    [k \in DcmiTerms |-> IF k \in DOMAIN kwargs THEN kwargs[k]
                         ELSE IF k = "description" THEN NoDescription
                         ELSE None]

\* Metadata.__init__ (database.py:115-159); pixel_ids stands for the four
\* list and string arguments that are stored as they are (sample_dimensions,
\* pixel_ids, pixel_positions, pixel_dimensions)
Metadata(measurement, measurement_settings, sample_id, device, channels, channels_settings, interface, pixel_ids, kwargs) ==
    [ measurement          |-> measurement,
      measurement_settings |-> measurement_settings,
      settings_hash        |-> parse_settings_hash(measurement_settings),
      sample_id            |-> sample_id,
      device               |-> device,
      channels             |-> channels,
      channels_settings    |-> channels_settings,
      interface            |-> interface,
      pixel_ids            |-> pixel_ids,
      dcmi                 |-> MetadataDcmi(kwargs) ]

(***************************************************************************)
(* The HDF5 file: a function from the paths that exist to their nodes      *)
(***************************************************************************)
GroupNode(attrs) == [kind |-> "group", attrs |-> attrs]

LinkNode(target) == [kind |-> "link", target |-> target]

DataNode(data) == [kind |-> "data", data |-> data]

NoAttrs == << >>

SAMPLES == <<"SAMPLES">>

\* h5py.File(path, "w"); db.create_group('SAMPLES')   (database.py:249-250)
NewFile == ( <<SAMPLES>> :> GroupNode(NoAttrs) )

\* group.keys(): the names of the members of the group at path p
Keys(f, p) == { q[Len(p) + 1] : q \in {r \in DOMAIN f : Len(r) = Len(p) + 1 /\ IsPrefix(p, r)} }

\* the proper prefixes of p that the file lacks (h5py creates them)
MissingParents(f, p) == { Take(p, n) : n \in 1..(Len(p) - 1) } \ DOMAIN f

\* create_group / create_dataset / link assignment at p (p not in the file)
Create(f, p, node) ==
    [q \in DOMAIN f \cup MissingParents(f, p) \cup {p} |->
        IF q = p THEN node
        ELSE IF q \in DOMAIN f THEN f[q]
        ELSE GroupNode(NoAttrs)]

\* del db[p]: the node and everything below it
Delete(f, p) == [q \in {r \in DOMAIN f : ~IsPrefix(p, r)} |-> f[q]]

\* attrs.create(name, value): sets the attribute, replacing one of that name
AttrsCreate(attrs, name, value) ==
    [n \in DOMAIN attrs \cup {name} |-> IF n = name THEN value ELSE attrs[n]]

\* for k, v in settings.items(): attrs.create(f'{prefix}_{k}', v)
RECURSIVE CreateSettings(_, _, _)
CreateSettings(attrs, prefix, settings) ==
    IF settings = << >> THEN attrs
    ELSE CreateSettings(AttrsCreate(attrs, <<prefix, "_">> \o settings[1][1], settings[1][2]),
                        prefix, Tail(settings))

\* for channel, channel_settings in zip(m.channels, m.channels_settings): ...
RECURSIVE CreateChannels(_, _, _)
CreateChannels(attrs, channels, settings) ==
    IF channels = << >> \/ settings = << >> THEN attrs
    ELSE CreateChannels(CreateSettings(attrs, channels[1], settings[1]),
                        Tail(channels), Tail(settings))

\* for k, v in m.dcmi.items(): attrs.create(f'dcmi_{k}', v)
CreateDcmi(attrs, dcmi) ==
    [n \in DOMAIN attrs \cup {<<"dcmi", "_", k>> : k \in DcmiTerms} |->
        IF \E k \in DcmiTerms : n = <<"dcmi", "_", k>> THEN dcmi[n[3]] ELSE attrs[n]]

\* the attributes initialize_dataset writes on the leaf, in the order of
\* database.py:303-318
LeafAttrs(m) ==
    LET a1 == AttrsCreate(NoAttrs, <<"measurement">>, m.measurement)
        a2 == CreateSettings(a1, m.measurement, m.measurement_settings)
        a3 == AttrsCreate(a2, <<"sample", "_", "id">>, m.sample_id)
        a4 == AttrsCreate(a3, <<"device">>, m.device)
        a5 == AttrsCreate(a4, <<"channels">>, m.channels)
        a6 == CreateChannels(a5, m.channels, m.channels_settings)
        a7 == AttrsCreate(a6, <<"interface">>, m.interface)
        a8 == AttrsCreate(a7, <<"pixel", "_", "ids">>, m.pixel_ids)
    IN  CreateDcmi(a8, m.dcmi)

(***************************************************************************)
(* Database (database.py:231-516); f is the file, t a clock tick           *)
(***************************************************************************)
\* a timestamp property that does not wait for the clock to change
TimestampReads_same(t) == t..MaxClock

\* a timestamp property read off a wall clock that is stepped back: any
\* string but the stored one
TimestampReads_wall_clock(t) == (0..MaxClock) \ {t}

\* Database.timestamp (database.py:261-267): spins while the clock's ISO
\* string equals the stored one, then stores and returns the clock's string;
\* the clock is taken to run forward, so a read at stored tick t returns a
\* later tick
TimestampReads(t) == (t + 1)..MaxClock

\* the dataset path without the sample id
DatasetPath_no_sample(m, timestamp) == << <<m.measurement>>, m.settings_hash, timestamp >>

\* the dataset path f'/{m.measurement}/{m.settings_hash}/{timestamp}-{m.sample_id}'
DatasetPath(m, timestamp) ==
    << <<m.measurement>>, m.settings_hash, timestamp \o <<"-">> \o m.sample_id >>

\* Database.initialize_dataset (database.py:279-322), self.timestamp
\* returning tick t: the dataset path, the Metadata as the call leaves it,
\* and the file
initialize_dataset(f, m, t) ==
    LET timestamp == Isoformat(t)
        dataset   == DatasetPath(m, timestamp)
        dcmi      == [k \in DcmiTerms |->
                         IF m.dcmi[k] # None \/ k = "description" THEN m.dcmi[k]
                         ELSE IF k = "identifier" THEN dataset
                         ELSE IF k = "title"
                              THEN <<"Dataset for", m.measurement>> \o m.sample_id
                         ELSE <<timestamp[1]>>]
        m1        == [m EXCEPT !.dcmi = dcmi]
        f1        == IF <<m.measurement>> \in Keys(f, << >>) THEN f
                     ELSE Create(f, << <<m.measurement>> >>, GroupNode(NoAttrs))
        f2        == IF m.settings_hash \in Keys(f1, << <<m.measurement>> >>) THEN f1
                     ELSE Create(f1, << <<m.measurement>>, m.settings_hash >>,
                                 GroupNode(m.measurement_settings))
        f3        == Create(f2, dataset, GroupNode(LeafAttrs(m1)))
        f4        == IF m.sample_id \in Keys(f3, <<SAMPLES>>) THEN f3
                     ELSE Create(f3, <<SAMPLES, m.sample_id>>, GroupNode(NoAttrs))
        f5        == Create(f4, <<SAMPLES, m.sample_id, timestamp>>, LinkNode(dataset))
    IN  [dataset |-> dataset, metadata |-> m1, file |-> f5]

\* Database.delete_dataset (database.py:324-333); timestamp_size is
\* len(self.timestamp), read twice: at ticks t1 and t2
delete_dataset(f, dataset, t1, t2) ==
    LET last      == dataset[Len(dataset)]
        timestamp == Take(last, Len(Isoformat(t1)))
        sample_id == Drop(last, Len(Isoformat(t2)) + 1)
        link      == <<SAMPLES, sample_id, timestamp>>
    IN  IF link \notin DOMAIN f THEN [raised |-> "KeyError", file |-> f]
        ELSE IF dataset \notin DOMAIN Delete(f, link)
             THEN [raised |-> "KeyError", file |-> Delete(f, link)]
        ELSE [raised |-> "", file |-> Delete(Delete(f, link), dataset)]

\* f'{dataset}/{pixel}'
PixelPath(dataset, pixel) == (IF dataset = None THEN << <<"None">> >> ELSE dataset) \o << <<pixel>> >>

\* save_data called without its pixel argument, which defaults to '0'
save_data_default_pixel(f, data, dataset, pixel) ==
    IF PixelPath(dataset, "0") \in DOMAIN f THEN [raised |-> "ValueError", file |-> f]
    ELSE [raised |-> "", file |-> Create(f, PixelPath(dataset, "0"), DataNode(data))]

\* a save_data that replaces the array of a pixel that has one
save_data_overwriting(f, data, dataset, pixel) ==
    IF PixelPath(dataset, pixel) \in DOMAIN f
    THEN [raised |-> "", file |-> [f EXCEPT ![PixelPath(dataset, pixel)] = DataNode(data)]]
    ELSE [raised |-> "", file |-> Create(f, PixelPath(dataset, pixel), DataNode(data))]

\* Database.save_data (database.py:335-344): create_dataset fails when the
\* name exists and creates missing groups on the way
save_data(f, data, dataset, pixel) ==
    IF PixelPath(dataset, pixel) \in DOMAIN f THEN [raised |-> "ValueError", file |-> f]
    ELSE [raised |-> "", file |-> Create(f, PixelPath(dataset, pixel), DataNode(data))]

\* Database.load_data (database.py:346-359) for one pixel id
CanLoad(f, dataset, pixel) ==
    PixelPath(dataset, pixel) \in DOMAIN f /\ f[PixelPath(dataset, pixel)].kind = "data"

load_data(f, dataset, pixel) == f[PixelPath(dataset, pixel)].data

\* Database.filter_by_sample_id (database.py:506-516): the paths the soft
\* links of the sample point to; the code raises KeyError for a sample id
\* without a group, here the set is empty
filter_by_sample_id(f, sample_id) ==
    { f[<<SAMPLES, sample_id, k>>].target : k \in Keys(f, <<SAMPLES, sample_id>>) }

\* Database.get_sample_ids (database.py:497-504)
get_sample_ids(f) == Keys(f, <<SAMPLES>>)

\* Database.get_measurements (database.py:414-422)
get_measurements(f) == Keys(f, << >>) \ {SAMPLES}

\* Database.get_filters (database.py:438-455): for every attribute name of the
\* settings groups of the measurement the set of its values; KeyError for a
\* measurement without a group
get_filters(f, measurement) ==
    LET items == UNION { Range(f[<< measurement, settings_group >>].attrs) :
                         settings_group \in Keys(f, << measurement >>) }
    IN  IF << measurement >> \notin DOMAIN f THEN [raised |-> "KeyError", filters |-> << >>]
        ELSE [ raised  |-> "",
               filters |-> [k \in {kv[1] : kv \in items} |->
                              {kv[2] : kv \in {x \in items : x[1] = k}}] ]

\* the keys of the loaded attributes that start with f'{prefix}_'
PrefixedKeys(keys, prefix) == {k \in keys : IsPrefix(<<prefix, "_">>, k)}

\* the dict {k.replace(f'{prefix}_', ''): metadata[k]} over the keys ks, as
\* a mapping (two keys that shorten to the same name do not occur here)
Shortened(metadata, ks, prefix) ==
    [n \in {Remove(k, <<prefix, "_">>) : k \in ks} |->
        metadata[CHOOSE k \in ks : Remove(k, <<prefix, "_">>) = n]]

\* the loop over metadata['channels'] (database.py:378-383): each channel
\* takes the keys of its prefix out of the original key list and deletes
\* them from the dict; reading a key that is deleted already is a KeyError
RECURSIVE LoadChannels(_, _, _, _)
LoadChannels(metadata, keys, deleted, channels) ==
    IF channels = << >> THEN [raised |-> "", deleted |-> deleted, settings |-> << >>]
    ELSE LET ks == PrefixedKeys(keys, channels[1])
         IN  IF ks \cap deleted # {}
             THEN [raised |-> "KeyError", deleted |-> deleted, settings |-> << >>]
             ELSE LET rest == LoadChannels(metadata, keys, deleted \cup ks, Tail(channels))
                  IN  [ raised   |-> rest.raised,
                        deleted  |-> rest.deleted,
                        settings |-> << Shortened(metadata, ks, channels[1]) >> \o rest.settings ]

\* the attributes Metadata.__init__ needs as arguments
RequiredKeys ==
    { <<"measurement">>, <<"sample", "_", "id">>, <<"device">>, <<"channels">>,
      <<"interface">>, <<"pixel", "_", "ids">> }

\* Database.load_metadata (database.py:361-389): the attributes of the leaf
\* sorted back into the arguments of Metadata; the loaded dcmi terms are
\* handed over as one keyword argument 'dcmi'. The dicts of the result are
\* mappings; its settings_hash, which follows the order in which h5py lists
\* the attributes, is left out
load_metadata(f, dataset) ==
    LET metadata    == f[dataset].attrs
        keys        == DOMAIN metadata
        measurement == metadata[<<"measurement">>]
        ms          == PrefixedKeys(keys, measurement)
        cs          == LoadChannels(metadata, keys, ms, metadata[<<"channels">>])
        ds          == PrefixedKeys(keys, "dcmi")
        dcmi        == Shortened(metadata, ds, "dcmi")
        left        == keys \ (cs.deleted \cup ds)
    IN  IF <<"measurement">> \notin keys \/ <<"channels">> \notin keys
        THEN [raised |-> "KeyError"]
        ELSE IF cs.raised # "" THEN [raised |-> cs.raised]
        ELSE IF ds \cap cs.deleted # {} THEN [raised |-> "KeyError"]
        ELSE IF ~(RequiredKeys \subseteq left) THEN [raised |-> "TypeError"]
        ELSE [ raised               |-> "",
               measurement          |-> measurement,
               measurement_settings |-> Shortened(metadata, ms, measurement),
               sample_id            |-> metadata[<<"sample", "_", "id">>],
               device               |-> metadata[<<"device">>],
               channels             |-> metadata[<<"channels">>],
               channels_settings    |-> cs.settings,
               interface            |-> metadata[<<"interface">>],
               pixel_ids            |-> metadata[<<"pixel", "_", "ids">>],
               dcmi                 |-> MetadataDcmi([dcmi |-> dcmi]) ]

\* str.split(':') of a settings hash: the empty string splits into ['']
Split(settings_hash) == IF settings_hash = << >> THEN << << >> >> ELSE settings_hash

\* Database.filter_by_settings (database.py:457-471): the leaves below the
\* settings groups whose digests include every digest of the query
filter_by_settings(f, measurement, settings) ==
    LET filter_criteria == Split(parse_settings_hash(settings))
        matching == { settings_hash \in Keys(f, << <<measurement>> >>) :
                        \A i \in DOMAIN filter_criteria :
                            filter_criteria[i] \in Range(Split(settings_hash)) }
    IN  IF << <<measurement>> >> \notin DOMAIN f THEN [raised |-> "KeyError", datasets |-> {}]
        ELSE [ raised   |-> "",
               datasets |-> UNION { { << <<measurement>>, settings_hash, d >> :
                                        d \in Keys(f, << <<measurement>>, settings_hash >>) } :
                                    settings_hash \in matching } ]

\* the loop of Database.filter_by_settings_batch over the items of the batch
\* from the n-th on: for every value of the setting, the hashes that include
\* the digest of {setting: value} are united, and the union is intersected
\* with the hashes still available
RECURSIVE BatchHashes(_, _, _)
BatchHashes(settings_batch, n, available_hashes) ==
    IF n > Len(settings_batch) THEN available_hashes
    ELSE LET setting == settings_batch[n][1]
             values  == settings_batch[n][2]
             matched_hashes ==
                 UNION { { x \in available_hashes :
                             parse_settings_hash(<< << setting, values[j] >> >>)[1]
                                 \in Range(Split(x)) } :
                         j \in DOMAIN values }
         IN  BatchHashes(settings_batch, n + 1, available_hashes \cap matched_hashes)

\* Database.filter_by_settings_batch (database.py:473-495)
filter_by_settings_batch(f, measurement, settings_batch) ==
    LET available_hashes == BatchHashes(settings_batch, 1, Keys(f, << <<measurement>> >>))
    IN  IF << <<measurement>> >> \notin DOMAIN f THEN [raised |-> "KeyError", datasets |-> {}]
        ELSE [ raised   |-> "",
               datasets |-> UNION { { << <<measurement>>, settings_hash, group >> :
                                        group \in Keys(f, << <<measurement>>, settings_hash >>) } :
                                    settings_hash \in available_hashes } ]

(***************************************************************************)
(* Compatibility (experiment.py:192-211)                                   *)
(***************************************************************************)
\* a pixel check that never raises
_check_pixel_compatibility_skipped(interface, pixel) == FALSE

\* Experiment._check_pixel_compatibility: TRUE when it raises
_check_pixel_compatibility(interface, pixel) == pixel \notin Range(interface.pixel_ids)

\* the checks of the constructor without the loop over the selected pixels
_check_compatibility_without_pixels(interface, device, measurement, pixels) ==
    IF interface.interface_type # measurement.interface_type
    THEN "CompatibilityError"
    ELSE IF Len(measurement.required_channels) > Len(device.channels)
    THEN "CompatibilityError"
    ELSE IF \E i \in 1..Len(measurement.required_channels) :
                ~ \E parent_class \in measurement.required_channels[i] :
                      IsInstance(device.channels[i], parent_class)
    THEN "CompatibilityError"
    ELSE ""

\* Experiment._check_compatibility: the four checks in order, the first
\* failing one raises; "" when none raises
_check_compatibility(interface, device, measurement, pixels) ==
    IF interface.interface_type # measurement.interface_type
    THEN "CompatibilityError"
    ELSE IF Len(measurement.required_channels) > Len(device.channels)
    THEN "CompatibilityError"
    ELSE IF \E i \in 1..Len(measurement.required_channels) :
                ~ \E parent_class \in measurement.required_channels[i] :
                      IsInstance(device.channels[i], parent_class)
    THEN "CompatibilityError"
    ELSE IF \E i \in 1..Len(pixels) : _check_pixel_compatibility(interface, pixels[i])
    THEN "CompatibilityError"
    ELSE ""

(***************************************************************************)
(* State                                                                   *)
(***************************************************************************)
VARIABLES
    experiment,         \* the constructed Experiment's injected parts, or NoExperiment
    ctor_args,          \* the arguments of the last Experiment(...) call
    state,              \* Experiment._state, a multiprocessing.Value
    current_pixel_idx,  \* Experiment._current_pixel_idx, a multiprocessing.Value
    dataset,            \* Experiment._dataset in the controller
    process,            \* Experiment._process: the slot of the last spawned worker, 0 for None
    exitcode,           \* how the process of Experiment._process ended, "" while it has not
    workers,            \* the worker processes, by slot
    ctl,                \* the controller: the command it is in and its locals
    raised,             \* the exception the last finished command raised, "" for none
    db_file,            \* the HDF5 file of the Database
    db_timestamp,       \* Database.__timestamp, as a clock tick
    calls,              \* history: the number of commands issued
    call,               \* history: the last command issued and what it found
    run,                \* history: the last full run, its dataset and pixel id -> array returned
    leaves,             \* history: path initialize_dataset returned -> pixel ids saved under it, in order
    late,               \* history: did a worker step after abort() wrote ABORTED for it
    db_call,            \* history: the last Database method a caller used directly, and what it found
    issued,             \* history: the strings Database.timestamp returned to a caller, in order
    registered,         \* history: path initialize_dataset returned to a caller -> its Metadata argument
    buffers,            \* data_stream: by slot, the items the process has put and its feeder thread has not sent
    pipe,               \* data_stream: the items in the pipe of the queue
    pushed,             \* history: the items put into data_stream, in the order of the puts
    pulled,             \* history: the items an observer got from data_stream, in order
    conn                \* a device used directly: where a connect() stands, its connection and channels

vars == << experiment, ctor_args, state, current_pixel_idx, dataset, process, exitcode,
           workers, ctl, raised, db_file, db_timestamp, calls, call, run, leaves, late,
           db_call, issued, registered, buffers, pipe, pushed, pulled, conn >>

api_vars == << db_call, issued, registered >>

stream_vars == << buffers, pipe, pushed, pulled >>

device_vars == << conn >>

exp_vars == << experiment, ctor_args >>

db_vars == << db_file, db_timestamp >>

call_vars == << calls, call >>

NoExperiment == [constructed |-> FALSE]

NoArgs == << >>

NoWorker ==
    [ kind |-> "none", pc |-> "", pixel |-> "", previous_state |-> "", pos |-> 0,
      idx |-> 0, data |-> "", dataset |-> None, signalled |-> FALSE, lag |-> 0,
      aborted |-> FALSE, called_in |-> "", code |-> "" ]

Idle == [pc |-> "idle", pixel |-> "", previous_state |-> ""]

NoCall ==
    [ op |-> "", pixel |-> "", state |-> "", dataset |-> None, file |-> NewFile,
      before |-> NewFile,
      prev |-> [op |-> "", raised |-> ""] ]

NoData == << >>

NoRun == [dataset |-> None, returned |-> NoData]

NoLeaves == << >>

NoDbCall == [op |-> ""]

NoneIssued == << >>

NoneRegistered == << >>

NoItems == << >>

\* a device nobody has connected to yet
NoConnect ==
    [ pc |-> "idle", device |-> None, closable |-> FALSE, connection |-> "none", channels |-> << >>,
      k |-> 0, pending |-> "", raised |-> "", calls |-> 0 ]

Slots == 1..MaxWorkers

Alive(i) == workers[i].kind # "none"

\* Database('test.hdf5') on a fresh path; no Experiment yet
Init ==
    /\ experiment = NoExperiment
    /\ ctor_args = NoArgs
    /\ state = "INITIAL"
    /\ current_pixel_idx = -2
    /\ dataset = None
    /\ process = 0
    /\ exitcode = ""
    /\ workers = [i \in Slots |-> NoWorker]
    /\ ctl = Idle
    /\ raised = ""
    /\ db_file = NewFile
    /\ db_timestamp = 0
    /\ calls = 0
    /\ call = NoCall
    /\ run = NoRun
    /\ leaves = NoLeaves
    /\ late = "no"
    /\ db_call = NoDbCall
    /\ issued = NoneIssued
    /\ registered = NoneRegistered
    /\ buffers = [i \in Slots |-> NoItems]
    /\ pipe = NoItems
    /\ pushed = NoItems
    /\ pulled = NoItems
    /\ conn = NoConnect

(***************************************************************************)
(* Experiment.__init__ (experiment.py:166-190)                             *)
(***************************************************************************)
Construct(device, measurement, interface, sample_id, selected, data_stream) ==
    LET pixels == IF selected = NoSelection THEN interface.pixel_ids ELSE selected
        error  == _check_compatibility(interface, device, measurement, pixels)
    IN  /\ ~experiment.constructed
        /\ ctor_args' = [ device |-> device, measurement |-> measurement,
                          interface |-> interface, sample_id |-> sample_id,
                          selected_pixels |-> selected, data_stream |-> data_stream ]
        /\ raised' = error
        /\ IF error = ""
           THEN /\ experiment' = [ constructed |-> TRUE, device |-> device,
                                   measurement |-> measurement, interface |-> interface,
                                   sample_id |-> sample_id, selected_pixels |-> pixels,
                                   data_stream |-> data_stream ]
                /\ state' = "INITIAL"
                /\ current_pixel_idx' = -2
           ELSE UNCHANGED << api_vars, device_vars, stream_vars, experiment, state, current_pixel_idx >>
        /\ UNCHANGED << api_vars, device_vars, stream_vars, dataset, process, exitcode, workers, ctl, db_vars, call_vars,
                        run, leaves, late >>

(***************************************************************************)
(* The controller's commands, one action per access to the shared values,  *)
(* the Database or the worker process                                      *)
(***************************************************************************)
CanCall == experiment.constructed /\ ctl.pc = "idle" /\ calls < MaxCommands

\* the command op is entered: self.state as its guard reads it, and what the
\* controller and the Database hold at that moment
Call(op, pixel) ==
    /\ calls' = calls + 1
    /\ call' = [ op |-> op, pixel |-> pixel, state |-> state, dataset |-> dataset,
                 file |-> db_file, before |-> call.file,
                 prev |-> [op |-> call.op, raised |-> raised] ]

Goto(pc) == ctl' = [ctl EXCEPT !.pc = pc]

\* raise StateError(f"{state_messages[self.state]} ..."): the message is looked
\* up under the state as it is now, a KeyError when the dict has no such key
RaiseStateError(state_messages) ==
    /\ raised' = IF state \in state_messages THEN "StateError" ELSE "KeyError"
    /\ ctl' = Idle
    /\ UNCHANGED << api_vars, device_vars, stream_vars, exp_vars, state, current_pixel_idx, dataset, process, exitcode,
                    workers, db_vars, call_vars, run, leaves, late >>

\* the lowest free slot takes the new process; Process(...).start() copies the
\* Experiment (its dataset) into the child
Spawn(kind, pixel, previous_state) ==
    /\ \E i \in Slots : ~Alive(i)
    /\ LET i == CHOOSE j \in Slots : ~Alive(j) /\ \A k \in Slots : ~Alive(k) => j <= k
       IN  /\ workers' = [workers EXCEPT ![i] =
                            [ NoWorker EXCEPT !.kind = kind, !.pc = "check", !.pixel = pixel,
                                              !.previous_state = previous_state,
                                              !.dataset = dataset,
                                              !.called_in = call.state ]]
           /\ process' = i
    /\ exitcode' = ""

(* ---- Experiment.setup (experiment.py:239-261) ---- *)
SetupMetadata ==
    Metadata(experiment.measurement.name, experiment.measurement.settings,
             experiment.sample_id, experiment.device.name, experiment.device.channels,
             DeviceChannelsSettings(experiment.device), experiment.interface.name,
             experiment.interface.pixel_ids, NoKwargs)

setup ==
    /\ CanCall
    /\ TimestampReads(db_timestamp) # {}
    /\ Call("setup", "")
    /\ IF state \notin {"INITIAL", "FINISHED", "ABORTED"}
       THEN Goto("setup_raise") ELSE Goto("setup_idx")
    /\ raised' = ""
    /\ UNCHANGED << api_vars, device_vars, stream_vars, exp_vars, state, current_pixel_idx, dataset, process, exitcode,
                    workers, db_vars, run, leaves, late >>

setup_raise == ctl.pc = "setup_raise" /\ RaiseStateError({"READY", "RUNNING"})

\* setup that marks 'not started' with index 0
setup_idx_zero ==
    /\ ctl.pc = "setup_idx"
    /\ current_pixel_idx' = 0
    /\ Goto("setup_init")
    /\ UNCHANGED << api_vars, device_vars, stream_vars, exp_vars, state, dataset, process, exitcode, workers, raised, db_vars,
                    call_vars, run, leaves, late >>

setup_idx ==
    /\ ctl.pc = "setup_idx"
    /\ current_pixel_idx' = -1
    /\ Goto("setup_init")
    /\ UNCHANGED << api_vars, device_vars, stream_vars, exp_vars, state, dataset, process, exitcode, workers, raised, db_vars,
                    call_vars, run, leaves, late >>

setup_init ==
    /\ ctl.pc = "setup_init"
    /\ \E t \in TimestampReads(db_timestamp) :
          LET r == initialize_dataset(db_file, SetupMetadata, t)
          IN  /\ dataset' = r.dataset
              /\ db_file' = r.file
              /\ db_timestamp' = t
              /\ leaves' = (r.dataset :> << >>) @@ leaves
    /\ Goto("setup_state")
    /\ UNCHANGED << api_vars, device_vars, stream_vars, exp_vars, state, current_pixel_idx, process, exitcode, workers, raised,
                    call_vars, run, late >>

\* a failing initialize_dataset after which setup still writes READY
setup_init_fails_ready ==
    /\ ctl.pc = "setup_init"
    /\ \E t \in TimestampReads(db_timestamp) : db_timestamp' = t
    /\ raised' = "OSError"
    /\ state' = "READY"
    /\ ctl' = Idle
    /\ UNCHANGED << api_vars, device_vars, stream_vars, exp_vars, current_pixel_idx, dataset, process, exitcode,
                    workers, db_file, call_vars, run, leaves, late >>

\* the file cannot be opened or written: the error leaves setup
setup_init_fails ==
    /\ ctl.pc = "setup_init"
    /\ \E t \in TimestampReads(db_timestamp) : db_timestamp' = t
    /\ raised' = "OSError"
    /\ ctl' = Idle
    /\ UNCHANGED << api_vars, device_vars, stream_vars, exp_vars, state, current_pixel_idx, dataset, process, exitcode,
                    workers, db_file, call_vars, run, leaves, late >>

setup_state ==
    /\ ctl.pc = "setup_state"
    /\ state' = "READY"
    /\ ctl' = Idle
    /\ UNCHANGED << api_vars, device_vars, stream_vars, exp_vars, current_pixel_idx, dataset, process, exitcode, workers,
                    raised, db_vars, call_vars, run, leaves, late >>

(* ---- Experiment.start (experiment.py:263-274) ---- *)
start ==
    /\ CanCall
    /\ Call("start", "")
    /\ IF state # "READY" THEN Goto("start_raise") ELSE Goto("start_state")
    /\ raised' = ""
    /\ UNCHANGED << api_vars, device_vars, stream_vars, exp_vars, state, current_pixel_idx, dataset, process, exitcode,
                    workers, db_vars, run, leaves, late >>

start_raise ==
    ctl.pc = "start_raise" /\ RaiseStateError({"INITIAL", "RUNNING", "FINISHED", "ABORTED"})

start_state ==
    /\ ctl.pc = "start_state"
    /\ state' = "RUNNING"
    /\ Goto("start_spawn")
    /\ UNCHANGED << api_vars, device_vars, stream_vars, exp_vars, current_pixel_idx, dataset, process, exitcode, workers,
                    raised, db_vars, call_vars, run, leaves, late >>

start_spawn ==
    /\ ctl.pc = "start_spawn"
    /\ Spawn("execute", "", "")
    /\ run' = [dataset |-> dataset, returned |-> NoData]
    /\ ctl' = Idle
    /\ UNCHANGED << api_vars, device_vars, stream_vars, exp_vars, state, current_pixel_idx, dataset, raised, db_vars,
                    call_vars, leaves, late >>

(* ---- Experiment.preview (experiment.py:213-225) ---- *)
\* a preview that accepts selected pixels only
preview_selected_only(pixel) ==
    /\ CanCall
    /\ Call("preview", pixel)
    /\ IF state = "RUNNING"
       THEN Goto("preview_raise") /\ raised' = ""
       ELSE IF pixel \notin Range(experiment.selected_pixels)
       THEN ctl' = Idle /\ raised' = "CompatibilityError"
       ELSE ctl' = [ctl EXCEPT !.pc = "preview_prev", !.pixel = pixel] /\ raised' = ""
    /\ UNCHANGED << api_vars, device_vars, stream_vars, exp_vars, state, current_pixel_idx, dataset, process, exitcode,
                    workers, db_vars, run, leaves, late >>

\* a preview that marks 'not started' before it looks at the pixel
preview_idx_before_check(pixel) ==
    /\ CanCall
    /\ Call("preview", pixel)
    /\ IF state = "RUNNING"
       THEN Goto("preview_raise") /\ raised' = "" /\ UNCHANGED current_pixel_idx
       ELSE IF _check_pixel_compatibility(experiment.interface, pixel)
       THEN ctl' = Idle /\ raised' = "CompatibilityError" /\ current_pixel_idx' = -1
       ELSE /\ ctl' = [ctl EXCEPT !.pc = "preview_prev", !.pixel = pixel] /\ raised' = ""
            /\ UNCHANGED current_pixel_idx
    /\ UNCHANGED << api_vars, device_vars, stream_vars, exp_vars, state, dataset, process, exitcode,
                    workers, db_vars, run, leaves, late >>

preview(pixel) ==
    /\ CanCall
    /\ Call("preview", pixel)
    /\ IF state = "RUNNING"
       THEN Goto("preview_raise") /\ raised' = ""
       ELSE IF _check_pixel_compatibility(experiment.interface, pixel)
       THEN ctl' = Idle /\ raised' = "CompatibilityError"
       ELSE ctl' = [ctl EXCEPT !.pc = "preview_prev", !.pixel = pixel] /\ raised' = ""
    /\ UNCHANGED << api_vars, device_vars, stream_vars, exp_vars, state, current_pixel_idx, dataset, process, exitcode,
                    workers, db_vars, run, leaves, late >>

preview_raise == ctl.pc = "preview_raise" /\ RaiseStateError({"RUNNING"})

preview_prev ==
    /\ ctl.pc = "preview_prev"
    /\ ctl' = [ctl EXCEPT !.pc = "preview_idx", !.previous_state = state]
    /\ UNCHANGED << api_vars, device_vars, stream_vars, exp_vars, state, current_pixel_idx, dataset, process, exitcode,
                    workers, raised, db_vars, call_vars, run, leaves, late >>

preview_idx ==
    /\ ctl.pc = "preview_idx"
    /\ current_pixel_idx' = -2
    /\ Goto("preview_state")
    /\ UNCHANGED << api_vars, device_vars, stream_vars, exp_vars, state, dataset, process, exitcode, workers, raised, db_vars,
                    call_vars, run, leaves, late >>

preview_state ==
    /\ ctl.pc = "preview_state"
    /\ state' = "RUNNING"
    /\ Goto("preview_spawn")
    /\ UNCHANGED << api_vars, device_vars, stream_vars, exp_vars, current_pixel_idx, dataset, process, exitcode, workers,
                    raised, db_vars, call_vars, run, leaves, late >>

preview_spawn ==
    /\ ctl.pc = "preview_spawn"
    /\ Spawn("preview", ctl.pixel, ctl.previous_state)
    /\ ctl' = Idle
    /\ UNCHANGED << api_vars, device_vars, stream_vars, exp_vars, state, current_pixel_idx, dataset, raised, db_vars,
                    call_vars, run, leaves, late >>

(* ---- Experiment.abort (experiment.py:295-311) ---- *)
\* delete_dataset reads the clock twice
abort ==
    /\ CanCall
    /\ (state = "READY" /\ dataset # None) => db_timestamp + 2 <= MaxClock
    /\ Call("abort", "")
    /\ IF state \notin {"READY", "RUNNING"} THEN Goto("abort_raise") ELSE Goto("abort_ready")
    /\ raised' = ""
    /\ UNCHANGED << api_vars, device_vars, stream_vars, exp_vars, state, current_pixel_idx, dataset, process, exitcode,
                    workers, db_vars, run, leaves, late >>

abort_raise ==
    ctl.pc = "abort_raise" /\ RaiseStateError({"INITIAL", "FINISHED", "ABORTED"})

abort_ready ==
    /\ ctl.pc = "abort_ready"
    /\ IF state = "READY" THEN Goto("abort_idx") ELSE Goto("abort_aborted")
    /\ UNCHANGED << api_vars, device_vars, stream_vars, exp_vars, state, current_pixel_idx, dataset, process, exitcode,
                    workers, raised, db_vars, call_vars, run, leaves, late >>

abort_idx ==
    /\ ctl.pc = "abort_idx"
    /\ current_pixel_idx' = -2
    /\ Goto("abort_delete")
    /\ UNCHANGED << api_vars, device_vars, stream_vars, exp_vars, state, dataset, process, exitcode, workers, raised, db_vars,
                    call_vars, run, leaves, late >>

abort_delete ==
    /\ ctl.pc = "abort_delete"
    /\ IF dataset = None
       THEN Goto("abort_initial") /\ UNCHANGED << api_vars, device_vars, stream_vars, dataset, raised, db_vars >>
       ELSE \E t1 \in TimestampReads(db_timestamp) : \E t2 \in TimestampReads(t1) :
              LET r == delete_dataset(db_file, dataset, t1, t2)
              IN  /\ db_file' = r.file
                  /\ db_timestamp' = t2
                  /\ raised' = r.raised
                  /\ IF r.raised = ""
                     THEN dataset' = None /\ Goto("abort_initial")
                     ELSE UNCHANGED dataset /\ ctl' = Idle
    /\ UNCHANGED << api_vars, device_vars, stream_vars, exp_vars, state, current_pixel_idx, process, exitcode, workers,
                    call_vars, run, leaves, late >>

abort_initial ==
    /\ ctl.pc = "abort_initial"
    /\ state' = "INITIAL"
    /\ ctl' = Idle
    /\ UNCHANGED << api_vars, device_vars, stream_vars, exp_vars, current_pixel_idx, dataset, process, exitcode, workers,
                    raised, db_vars, call_vars, run, leaves, late >>

\* self._state = ExperimentState.ABORTED; the worker this abort is for is
\* marked (history) so that its later steps can be told
abort_aborted ==
    /\ ctl.pc = "abort_aborted"
    /\ state' = "ABORTED"
    /\ workers' = IF process = 0 THEN workers
                  ELSE [workers EXCEPT ![process].aborted = Alive(process)]
    /\ Goto("abort_terminate")
    /\ UNCHANGED << api_vars, device_vars, stream_vars, exp_vars, current_pixel_idx, dataset, process, exitcode,
                    raised, db_vars, call_vars, run, leaves, late >>

\* self.process.terminate(): SIGTERM is sent, nothing waits for the process
abort_terminate ==
    /\ ctl.pc = "abort_terminate"
    /\ IF process = 0
       THEN raised' = "AttributeError" /\ UNCHANGED workers
       ELSE /\ workers' = [workers EXCEPT ![process].signalled = Alive(process)]
            /\ UNCHANGED raised
    /\ ctl' = Idle
    /\ UNCHANGED << api_vars, device_vars, stream_vars, exp_vars, state, current_pixel_idx, dataset, process, exitcode, db_vars,
                    call_vars, run, leaves, late >>

(***************************************************************************)
(* The worker processes                                                    *)
(***************************************************************************)
\* history: a step of the process in slot i after abort() wrote ABORTED for
\* it, while abort() is still at terminate() ("during") or later ("after")
Late(i) ==
    late' = IF ~workers[i].aborted THEN late
            ELSE IF ctl.pc = "abort_terminate" /\ late # "after" THEN "during"
            ELSE "after"

\* the process in slot i ends by itself; Experiment._process shows its exit
\* status when it is that process. A process that has put into an mp.Queue
\* ends when its feeder thread has written the buffer to the pipe, so it
\* stays, joining that thread, while the pipe has no room for the buffer
Exit(i, code) ==
    /\ IF Len(pipe) + Len(buffers[i]) <= PipeCapacity
       THEN /\ workers' = [workers EXCEPT ![i] = NoWorker]
            /\ exitcode' = IF i = process THEN code ELSE exitcode
            /\ pipe' = pipe \o buffers[i]
            /\ buffers' = [buffers EXCEPT ![i] = NoItems]
       ELSE /\ workers' = [workers EXCEPT ![i] = [@ EXCEPT !.pc = "join", !.code = code]]
            /\ UNCHANGED << exitcode, pipe, buffers >>
    /\ Late(i)
    /\ UNCHANGED << pushed, pulled >>

\* data_stream.put(item) for each of the items, in the process of slot i:
\* FakeQueue.put (data_stream.py:64-70) does nothing, the put of an mp.Queue
\* appends to the buffer of the process
Put(i, items) ==
    IF experiment.data_stream = FakeQueue THEN buffers[i] ELSE buffers[i] \o items

\* the process in slot i puts the items and goes on as w; the buffer of a
\* process that SIGTERM ends is gone with it
ContinuePut(i, w, items) ==
    /\ IF w.signalled /\ w.lag + 1 >= MaxSignalLag
       THEN /\ workers' = [workers EXCEPT ![i] = NoWorker]
            /\ exitcode' = IF i = process THEN "killed" ELSE exitcode
            /\ buffers' = [buffers EXCEPT ![i] = NoItems]
       ELSE /\ workers' = [workers EXCEPT ![i] = IF w.signalled THEN [w EXCEPT !.lag = @ + 1] ELSE w]
            /\ buffers' = [buffers EXCEPT ![i] = Put(i, items)]
            /\ UNCHANGED exitcode
    /\ Late(i)
    /\ pushed' = IF experiment.data_stream = FakeQueue THEN pushed ELSE pushed \o items
    /\ UNCHANGED << pipe, pulled >>

\* the process in slot i goes on as w; one that was sent SIGTERM is gone
\* after MaxSignalLag steps at the latest
Continue(i, w) == ContinuePut(i, w, NoItems)

\* the datapoints one measurement.run puts (measurements/iv.py:83-99): each
\* item is known by its place in the order of all puts
Datapoints == [k \in 1..DatapointsPerRun |-> Len(pushed) + k]

CanStep(i) == ~workers[i].signalled \/ workers[i].lag < MaxSignalLag

At(i, kind, pc) == workers[i].kind = kind /\ workers[i].pc = pc /\ CanStep(i)

\* a loop that leaves out every other pixel
NextPixel_skipping(w) ==
    IF w.pos + 1 < Len(experiment.selected_pixels)
    THEN [w EXCEPT !.pos = w.pos + 2, !.pc = "inc_read"]
    ELSE IF w.pos < Len(experiment.selected_pixels)
    THEN [w EXCEPT !.pos = w.pos + 1, !.pc = "inc_read"]
    ELSE [w EXCEPT !.pc = "fin_read"]

\* for pixel in self.selected_pixels: the next iteration, or the code after the loop
NextPixel(w) ==
    IF w.pos < Len(experiment.selected_pixels)
    THEN [w EXCEPT !.pos = w.pos + 1, !.pc = "inc_read"]
    ELSE [w EXCEPT !.pc = "fin_read"]

\* InterfaceABC.select_pixel (interfaces.py:83-91): TRUE when it raises ValueError
select_pixel(pixel) == pixel \notin Range(experiment.interface.pixel_ids)

(* ---- Experiment._execute (experiment.py:276-293) ---- *)
execute_check(i) ==
    /\ At(i, "execute", "check")
    /\ IF state # "RUNNING"
       THEN Exit(i, "StateError")
       ELSE Continue(i, NextPixel(workers[i]))
    /\ UNCHANGED << api_vars, device_vars, exp_vars, state, current_pixel_idx, dataset, process, ctl, raised, db_vars,
                    call_vars, run, leaves >>

\* self._current_pixel_idx.value = self.current_pixel_idx + 1: the read ...
execute_inc_read(i) ==
    /\ At(i, "execute", "inc_read")
    /\ Continue(i, [workers[i] EXCEPT !.idx = current_pixel_idx, !.pc = "inc_write"])
    /\ UNCHANGED << api_vars, device_vars, exp_vars, state, current_pixel_idx, dataset, process, ctl, raised, db_vars,
                    call_vars, run, leaves >>

\* ... and the write
execute_inc_write(i) ==
    /\ At(i, "execute", "inc_write")
    /\ current_pixel_idx' = workers[i].idx + 1
    /\ Continue(i, [workers[i] EXCEPT !.pc = "select"])
    /\ UNCHANGED << api_vars, device_vars, exp_vars, state, dataset, process, ctl, raised, db_vars, call_vars,
                    run, leaves >>

execute_select(i) ==
    /\ At(i, "execute", "select")
    /\ IF select_pixel(experiment.selected_pixels[workers[i].pos])
       THEN Exit(i, "error")
       ELSE Continue(i, [workers[i] EXCEPT !.pc = "run"])
    /\ UNCHANGED << api_vars, device_vars, exp_vars, state, current_pixel_idx, dataset, process, ctl, raised, db_vars,
                    call_vars, run, leaves >>

\* a put that waits until the pipe has room for the item
execute_run_blocking(i) ==
    /\ At(i, "execute", "run")
    /\ experiment.data_stream = Queue => Len(pipe) + Len(buffers[i]) < PipeCapacity
    /\ \E data \in DataValues :
          /\ ContinuePut(i, [workers[i] EXCEPT !.data = data, !.pc = "save"], Datapoints)
          /\ run' = [run EXCEPT !.returned =
                        (experiment.selected_pixels[workers[i].pos] :> data) @@ @]
    /\ UNCHANGED << api_vars, device_vars, exp_vars, state, current_pixel_idx, dataset, process, ctl, raised, db_vars,
                    call_vars, leaves >>

\* data = self.measurement.run(self.device, self.data_stream)
execute_run(i) ==
    /\ At(i, "execute", "run")
    /\ \E data \in DataValues :
          /\ ContinuePut(i, [workers[i] EXCEPT !.data = data, !.pc = "save"], Datapoints)
          /\ run' = [run EXCEPT !.returned =
                        (experiment.selected_pixels[workers[i].pos] :> data) @@ @]
    /\ UNCHANGED << api_vars, device_vars, exp_vars, state, current_pixel_idx, dataset, process, ctl, raised, db_vars,
                    call_vars, leaves >>

\* self.database.save_data(data, self.dataset, pixel)
execute_save(i) ==
    /\ At(i, "execute", "save")
    /\ LET w == workers[i]
           r == save_data(db_file, w.data, w.dataset, experiment.selected_pixels[w.pos])
       IN  IF r.raised # ""
           THEN Exit(i, "error") /\ UNCHANGED << api_vars, device_vars, db_file, leaves >>
           ELSE /\ db_file' = r.file
                /\ leaves' = IF w.dataset \in DOMAIN leaves
                              THEN [leaves EXCEPT ![w.dataset] =
                                       Append(@, experiment.selected_pixels[w.pos])]
                              ELSE leaves
                /\ Continue(i, NextPixel([w EXCEPT !.data = ""]))
    /\ UNCHANGED << api_vars, device_vars, exp_vars, state, current_pixel_idx, dataset, process, ctl, raised,
                    db_timestamp, call_vars, run >>

execute_fin_read(i) ==
    /\ At(i, "execute", "fin_read")
    /\ Continue(i, [workers[i] EXCEPT !.idx = current_pixel_idx, !.pc = "fin_write"])
    /\ UNCHANGED << api_vars, device_vars, exp_vars, state, current_pixel_idx, dataset, process, ctl, raised, db_vars,
                    call_vars, run, leaves >>

execute_fin_write(i) ==
    /\ At(i, "execute", "fin_write")
    /\ current_pixel_idx' = workers[i].idx + 1
    /\ Continue(i, [workers[i] EXCEPT !.pc = "fin_state"])
    /\ UNCHANGED << api_vars, device_vars, exp_vars, state, dataset, process, ctl, raised, db_vars, call_vars,
                    run, leaves >>

\* the run ends without writing FINISHED
execute_fin_state_silent(i) ==
    /\ At(i, "execute", "fin_state")
    /\ Exit(i, "ok")
    /\ UNCHANGED << api_vars, device_vars, exp_vars, state, current_pixel_idx, dataset, process, ctl, raised, db_vars,
                    call_vars, run, leaves >>

execute_fin_state(i) ==
    /\ At(i, "execute", "fin_state")
    /\ state' = "FINISHED"
    /\ Exit(i, "ok")
    /\ UNCHANGED << api_vars, device_vars, exp_vars, current_pixel_idx, dataset, process, ctl, raised, db_vars,
                    call_vars, run, leaves >>

(* ---- Experiment._execute_preview (experiment.py:227-237) ---- *)
execute_preview_check(i) ==
    /\ At(i, "preview", "check")
    /\ IF state # "RUNNING"
       THEN Exit(i, "StateError")
       ELSE Continue(i, [workers[i] EXCEPT !.pc = "select"])
    /\ UNCHANGED << api_vars, device_vars, exp_vars, state, current_pixel_idx, dataset, process, ctl, raised, db_vars,
                    call_vars, run, leaves >>

execute_preview_select(i) ==
    /\ At(i, "preview", "select")
    /\ IF select_pixel(workers[i].pixel)
       THEN Exit(i, "error")
       ELSE Continue(i, [workers[i] EXCEPT !.pc = "run"])
    /\ UNCHANGED << api_vars, device_vars, exp_vars, state, current_pixel_idx, dataset, process, ctl, raised, db_vars,
                    call_vars, run, leaves >>

\* a preview that stores the array it measured
execute_preview_run_saving(i) ==
    /\ At(i, "preview", "run")
    /\ db_file' = save_data(db_file, "d0", workers[i].dataset, workers[i].pixel).file
    /\ ContinuePut(i, [workers[i] EXCEPT !.pc = "restore_idx"], Datapoints)
    /\ UNCHANGED << api_vars, device_vars, exp_vars, state, current_pixel_idx, dataset, process, ctl, raised,
                    db_timestamp, call_vars, run, leaves >>

\* the array run returns is dropped
execute_preview_run(i) ==
    /\ At(i, "preview", "run")
    /\ ContinuePut(i, [workers[i] EXCEPT !.pc = "restore_idx"], Datapoints)
    /\ UNCHANGED << api_vars, device_vars, exp_vars, state, current_pixel_idx, dataset, process, ctl, raised, db_vars,
                    call_vars, run, leaves >>

execute_preview_idx(i) ==
    /\ At(i, "preview", "restore_idx")
    /\ current_pixel_idx' = IF workers[i].previous_state = "READY" THEN -1 ELSE -2
    /\ Continue(i, [workers[i] EXCEPT !.pc = "restore_state"])
    /\ UNCHANGED << api_vars, device_vars, exp_vars, state, dataset, process, ctl, raised, db_vars, call_vars,
                    run, leaves >>

\* the preview ends in INITIAL whatever the previous state
execute_preview_state_initial(i) ==
    /\ At(i, "preview", "restore_state")
    /\ state' = "INITIAL"
    /\ Exit(i, "ok")
    /\ UNCHANGED << api_vars, device_vars, exp_vars, current_pixel_idx, dataset, process, ctl, raised, db_vars,
                    call_vars, run, leaves >>

execute_preview_state(i) ==
    /\ At(i, "preview", "restore_state")
    /\ state' = IF workers[i].previous_state = "READY" THEN "READY" ELSE "INITIAL"
    /\ Exit(i, "ok")
    /\ UNCHANGED << api_vars, device_vars, exp_vars, current_pixel_idx, dataset, process, ctl, raised, db_vars,
                    call_vars, run, leaves >>

(* ---- what the worker's environment does ---- *)
\* a failing worker that puts the state back to INITIAL before it ends
worker_raises_resets(i) ==
    /\ Alive(i)
    /\ CanStep(i)
    /\ workers[i].pc \in {"select", "run", "save"}
    /\ state' = "INITIAL"
    /\ Exit(i, "error")
    /\ UNCHANGED << api_vars, device_vars, exp_vars, current_pixel_idx, dataset, process, ctl, raised, db_vars,
                    call_vars, run, leaves >>

\* select_pixel, measurement.run or save_data raises (the hardware, the
\* device, the storage): the exception leaves the worker, which ends
worker_raises(i) ==
    /\ Alive(i)
    /\ CanStep(i)
    /\ workers[i].pc \in {"select", "run", "save"}
    /\ Exit(i, "error")
    /\ UNCHANGED << api_vars, device_vars, exp_vars, state, current_pixel_idx, dataset, process, ctl, raised, db_vars,
                    call_vars, run, leaves >>

\* the SIGTERM of terminate() reaches the process
sigterm(i) ==
    /\ Alive(i)
    /\ workers[i].signalled
    /\ workers' = [workers EXCEPT ![i] = NoWorker]
    /\ exitcode' = IF i = process THEN "killed" ELSE exitcode
    /\ buffers' = [buffers EXCEPT ![i] = NoItems]
    /\ UNCHANGED << pipe, pushed, pulled >>
    /\ UNCHANGED << api_vars, device_vars, exp_vars, state, current_pixel_idx, dataset, process, ctl, raised, db_vars,
                    call_vars, run, leaves, late >>

(***************************************************************************)
(* The specification                                                       *)
(***************************************************************************)
Controller ==
    \/ setup \/ setup_raise \/ setup_idx \/ setup_init \/ setup_init_fails \/ setup_state
    \/ start \/ start_raise \/ start_state \/ start_spawn
    \/ \E pixel \in PixelArgs : preview(pixel)
    \/ preview_raise \/ preview_prev \/ preview_idx \/ preview_state \/ preview_spawn
    \/ abort \/ abort_raise \/ abort_ready \/ abort_idx \/ abort_delete \/ abort_initial
    \/ abort_aborted \/ abort_terminate

Worker(i) ==
    \/ execute_check(i) \/ execute_inc_read(i) \/ execute_inc_write(i) \/ execute_select(i)
    \/ execute_run(i) \/ execute_save(i) \/ execute_fin_read(i) \/ execute_fin_write(i)
    \/ execute_fin_state(i)
    \/ execute_preview_check(i) \/ execute_preview_select(i) \/ execute_preview_run(i)
    \/ execute_preview_idx(i) \/ execute_preview_state(i)

Environment(i) == worker_raises(i) \/ sigterm(i)

Next ==
    \/ \E device \in Devices, measurement \in Measurements, interface \in Interfaces,
          sample_id \in SampleIds, selected \in SelectedArgs :
          Construct(device, measurement, interface, sample_id, selected, FakeQueue)
    \/ Controller
    \/ \E i \in Slots : Worker(i) \/ Environment(i)

Spec == Init /\ [][Next]_vars

\* every worker process that can take a step eventually takes one
FairSpec == Spec /\ \A i \in Slots : WF_vars(Worker(i))

(***************************************************************************)
(* An Experiment built with a multiprocessing.Queue as its data_stream, as *)
(* a DataStreamABC hands it over (data_stream.py:16-23), and an observer   *)
(* that gets the items from it                                             *)
(***************************************************************************)
\* the feeder thread of the process in slot i sends the oldest item of the
\* buffer into the pipe of the queue
feed(i) ==
    /\ Alive(i)
    /\ buffers[i] # NoItems
    /\ Len(pipe) < PipeCapacity
    /\ pipe' = Append(pipe, Head(buffers[i]))
    /\ buffers' = [buffers EXCEPT ![i] = Tail(@)]
    /\ UNCHANGED << experiment, ctor_args, state, current_pixel_idx, dataset, process,
                    exitcode, workers, ctl, raised, db_file, db_timestamp, calls, call,
                    run, leaves, late, api_vars, device_vars, pushed, pulled >>

\* the process in slot i, which has returned or raised, ends when its feeder
\* thread has sent all it put
join(i) ==
    /\ Alive(i)
    /\ workers[i].pc = "join"
    /\ buffers[i] = NoItems
    /\ workers' = [workers EXCEPT ![i] = NoWorker]
    /\ exitcode' = IF i = process THEN workers[i].code ELSE exitcode
    /\ UNCHANGED << experiment, ctor_args, state, current_pixel_idx, dataset, process,
                    ctl, raised, db_file, db_timestamp, calls, call,
                    run, leaves, late, api_vars, device_vars, stream_vars >>

\* ProgressBar._update (data_stream.py:108-124): the observer gets the oldest
\* item when the queue is not empty
pull ==
    /\ pipe # NoItems
    /\ pulled' = Append(pulled, Head(pipe))
    /\ pipe' = Tail(pipe)
    /\ UNCHANGED << experiment, ctor_args, state, current_pixel_idx, dataset, process,
                    exitcode, workers, ctl, raised, db_file, db_timestamp, calls, call,
                    run, leaves, late, api_vars, device_vars, buffers, pushed >>

\* selected_pixels arguments of the sessions with a queue: one pixel, one pixel
\* twice, and a pixel the interface does not have
StreamSelectedArgs == { <<"1">>, <<"0", "0">>, <<"9">> }

StreamNext ==
    \/ \E device \in Devices, measurement \in Measurements, interface \in Interfaces,
          sample_id \in SampleIds, selected \in StreamSelectedArgs :
          Construct(device, measurement, interface, sample_id, selected, Queue)
    \/ Controller
    \/ \E i \in Slots : Worker(i) \/ Environment(i) \/ feed(i) \/ join(i)
    \/ pull

StreamSpec == Init /\ [][StreamNext]_vars

\* every worker process that can take a step eventually takes one; nothing is
\* required of the observer
StreamFairSpec == StreamSpec /\ \A i \in Slots : WF_vars(Worker(i))

(***************************************************************************)
(* A Database used directly, as src/test/test_database.py does: a caller   *)
(* builds Metadata objects and calls the methods of one Database instance  *)
(***************************************************************************)
\* Database methods a caller uses in a session
MaxCalls == 3

\* settings dicts a caller builds a Metadata with
SettingsArgs ==
    { << << <<"a">>, 1 >>, << <<"b">>, 2 >> >>,
      << << <<"a">>, 12 >> >>,
      << << <<"a", "1">>, 2 >> >>,
      << << <<"a">>, 1 >> >> }

\* settings dicts a caller filters by: the empty dict, parts of the dicts
\* above and a full one
QueryArgs ==
    { << >>,
      << << <<"a">>, 1 >> >>,
      << << <<"b">>, 2 >> >>,
      << << <<"a">>, 12 >> >>,
      << << <<"a">>, 1 >>, << <<"b">>, 2 >> >> }

\* batches a caller filters by, as lists of pairs of a setting name and a
\* list of values: the empty batch, one setting with two values, with one
\* value, with none, and two settings
BatchArgs ==
    { << >>,
      << << <<"a">>, <<1, 12>> >> >>,
      << << <<"a">>, <<12>> >> >>,
      << << <<"b">>, << >> >> >>,
      << << <<"a">>, <<1>> >>, << <<"b">>, <<2, 3>> >> >> }

\* the Metadata objects a caller builds: two samples, two measurements, a
\* device with one channel, with two channels of one class, with none, and
\* a description given as keyword argument
MetadataArgs ==
    { Metadata("iv", << << <<"a">>, 1 >>, << <<"b">>, 2 >> >>, <<"S1">>, "Dev", <<"SMU">>,
               <<ChannelSettings>>, "Ifc", <<"0", "1">>, NoKwargs),
      Metadata("iv", << << <<"a">>, 12 >> >>, <<"S1">>, "Dev", <<"SMU">>,
               <<ChannelSettings>>, "Ifc", <<"0", "1">>, NoKwargs),
      Metadata("iv", << << <<"a", "1">>, 2 >> >>, <<"S2">>, "Dev", <<"SMU">>,
               <<ChannelSettings>>, "Ifc", <<"0", "1">>, [description |-> <<"X">>]),
      Metadata("iv", << << <<"a">>, 1 >> >>, <<"S2">>, "Dev", <<"SMU", "SMU">>,
               <<ChannelSettings, ChannelSettings>>, "Ifc", <<"0", "1">>, NoKwargs),
      Metadata("cv", << << <<"a">>, 1 >> >>, <<"S1">>, "Dev", << >>,
               << >>, "Ifc", <<"0", "1">>, NoKwargs) }

\* a dataset path no initialize_dataset call returned
UnregisteredPath == << <<"iv">>, << <<"a", "9">> >>, <<"T0", "-", "S9">> >>

\* the variables of the Experiment, which a direct caller leaves alone
experiment_vars ==
    << experiment, ctor_args, state, current_pixel_idx, dataset, process, exitcode,
       workers, ctl, call, run, late, stream_vars >>

CanUse == ~experiment.constructed /\ calls < MaxCalls

\* value = db.timestamp   (database.py:261-267)
call_timestamp ==
    /\ CanUse
    /\ \E t \in TimestampReads(db_timestamp) :
          /\ db_timestamp' = t
          /\ issued' = Append(issued, Isoformat(t))
          /\ db_call' = [op |-> "timestamp", file |-> db_file, returned |-> Isoformat(t)]
    /\ calls' = calls + 1
    /\ raised' = ""
    /\ UNCHANGED << experiment_vars, device_vars, db_file, leaves, registered >>

\* dataset = db.initialize_dataset(m)   (database.py:279-322)
call_initialize_dataset(m) ==
    /\ CanUse
    /\ \E t \in TimestampReads(db_timestamp) :
          LET r == initialize_dataset(db_file, m, t)
          IN  /\ db_timestamp' = t
              /\ issued' = Append(issued, Isoformat(t))
              /\ db_file' = r.file
              /\ leaves' = (r.dataset :> << >>) @@ leaves
              /\ registered' = (r.dataset :> [m |-> m, deleted |-> FALSE]) @@ registered
              /\ db_call' = [ op |-> "initialize_dataset", file |-> db_file, m |-> m,
                              m_after |-> r.metadata, returned |-> r.dataset ]
    /\ calls' = calls + 1
    /\ raised' = ""
    /\ UNCHANGED << experiment_vars, device_vars >>

\* db.delete_dataset(dataset)   (database.py:324-333); timestamp_size reads
\* the timestamp property, once for each of the two slices
call_delete_dataset(p) ==
    /\ CanUse
    /\ \E t1 \in TimestampReads(db_timestamp) : \E t2 \in TimestampReads(t1) :
          LET r == delete_dataset(db_file, p, t1, t2)
          IN  /\ db_timestamp' = t2
              /\ issued' = issued \o << Isoformat(t1), Isoformat(t2) >>
              /\ db_file' = r.file
              /\ raised' = r.raised
              /\ registered' = IF r.raised = ""
                               THEN [registered EXCEPT ![p].deleted = TRUE]
                               ELSE registered
              /\ db_call' = [op |-> "delete_dataset", file |-> db_file, dataset |-> p]
    /\ calls' = calls + 1
    /\ UNCHANGED << experiment_vars, device_vars, leaves >>

\* db.save_data(data, dataset, pixel)   (database.py:335-344)
call_save_data(data, p, pixel) ==
    /\ CanUse
    /\ LET r == save_data(db_file, data, p, pixel)
       IN  /\ db_file' = r.file
           /\ raised' = r.raised
           /\ leaves' = IF r.raised = "" /\ p \in DOMAIN leaves
                        THEN [leaves EXCEPT ![p] = Append(@, pixel)]
                        ELSE leaves
    /\ db_call' = [ op |-> "save_data", file |-> db_file, dataset |-> p, pixel |-> pixel,
                    data |-> data ]
    /\ calls' = calls + 1
    /\ UNCHANGED << experiment_vars, device_vars, db_timestamp, issued, registered >>

\* m = db.load_metadata(dataset)   (database.py:361-389)
call_load_metadata(p) ==
    /\ CanUse
    /\ p \in DOMAIN db_file
    /\ LET r == load_metadata(db_file, p)
       IN  /\ raised' = r.raised
           /\ db_call' = [op |-> "load_metadata", file |-> db_file, dataset |-> p, returned |-> r]
    /\ calls' = calls + 1
    /\ UNCHANGED << experiment_vars, device_vars, db_vars, issued, registered, leaves >>

\* datasets = db.filter_by_settings(measurement, settings)   (database.py:457-471)
call_filter_by_settings(measurement, settings) ==
    /\ CanUse
    /\ LET r == filter_by_settings(db_file, measurement, settings)
       IN  /\ raised' = r.raised
           /\ db_call' = [ op |-> "filter_by_settings", file |-> db_file,
                           measurement |-> measurement, settings |-> settings,
                           returned |-> r.datasets ]
    /\ calls' = calls + 1
    /\ UNCHANGED << experiment_vars, device_vars, db_vars, issued, registered, leaves >>

\* datasets = db.filter_by_settings_batch(measurement, settings_batch)
\* (database.py:473-495), as DatabaseGUI._apply_filters calls it (gui.py:496-512)
call_filter_by_settings_batch(measurement, settings_batch) ==
    /\ CanUse
    /\ LET r == filter_by_settings_batch(db_file, measurement, settings_batch)
       IN  /\ raised' = r.raised
           /\ db_call' = [ op |-> "filter_by_settings_batch", file |-> db_file,
                           measurement |-> measurement, settings_batch |-> settings_batch,
                           returned |-> r.datasets ]
    /\ calls' = calls + 1
    /\ UNCHANGED << experiment_vars, device_vars, db_vars, issued, registered, leaves >>

\* datasets = db.filter_by_sample_id(sample_id)   (database.py:506-516), for
\* a sample that has a group
call_filter_by_sample_id(sample_id) ==
    /\ CanUse
    /\ <<SAMPLES, sample_id>> \in DOMAIN db_file
    /\ db_call' = [ op |-> "filter_by_sample_id", file |-> db_file, sample_id |-> sample_id,
                    returned |-> filter_by_sample_id(db_file, sample_id) ]
    /\ calls' = calls + 1
    /\ raised' = ""
    /\ UNCHANGED << experiment_vars, device_vars, db_vars, issued, registered, leaves >>

DbNext ==
    \/ call_timestamp
    \/ \E m \in MetadataArgs : call_initialize_dataset(m)
    \* the caller registers the Metadata object of the last call once more
    \/ db_call.op = "initialize_dataset" /\ call_initialize_dataset(db_call.m_after)
    \/ \E p \in DOMAIN registered : call_delete_dataset(p)
    \/ \E data \in DataValues, p \in DOMAIN registered \cup {UnregisteredPath},
          pixel \in {"0", "1"} : call_save_data(data, p, pixel)
    \/ \E p \in DOMAIN registered : call_load_metadata(p)
    \/ \E m \in MetadataArgs, settings \in QueryArgs :
          call_filter_by_settings(m.measurement, settings)
    \/ \E m \in MetadataArgs, settings_batch \in BatchArgs :
          call_filter_by_settings_batch(m.measurement, settings_batch)
    \/ \E m \in MetadataArgs : call_filter_by_sample_id(m.sample_id)

DbSpec == Init /\ [][DbNext]_vars

(***************************************************************************)
(* A device used directly, as a measurement does in                        *)
(* `with device.connect():` (measurements/iv.py:78-88): DeviceABC.connect  *)
(* (devices/__init__.py:50-67), a generator-based context manager          *)
(***************************************************************************)
\* a channel as connect() and the with-block leave it: its _connection
\* reference, whether it is enabled, and whether this connect() has disabled it
NewChannel == [connection |-> FALSE, enabled |-> FALSE, disabled |-> FALSE]

other_vars ==
    << experiment_vars, api_vars, db_vars, calls, raised, leaves >>

\* connection = self._establish_connection(): the demo devices return True,
\* which has no close(); OssilaX200 returns an xtralien.Device, which has one.
\* The channel objects are those of the device, as the last use left them
connect_establish(device, closable) ==
    /\ ~experiment.constructed
    /\ conn.pc \in {"idle", "left"}
    /\ conn.calls < MaxConnects
    /\ IF conn.calls = 0 THEN device.channels # << >>
                          ELSE device = conn.device /\ closable = conn.closable
    /\ \E ok \in BOOLEAN :
          conn' = [ conn EXCEPT
                      !.device = device, !.closable = closable, !.calls = @ + 1,
                      !.channels = IF conn.calls = 0
                                   THEN [i \in DOMAIN device.channels |-> NewChannel]
                                   ELSE [i \in DOMAIN @ |-> [@[i] EXCEPT !.disabled = FALSE]],
                      !.connection = IF ok THEN "open" ELSE "none",
                      !.pc = IF ok THEN "apply" ELSE "left",
                      !.k = 1, !.pending = "",
                      !.raised = IF ok THEN "" ELSE "establish_connection" ]
    /\ UNCHANGED other_vars

\* for channel in self._channels: channel._connection = connection;
\* channel.apply_settings(), which checks the settings and writes them to the
\* device and may raise; the loop stands before the try
connect_apply ==
    /\ conn.pc = "apply"
    /\ IF conn.k > Len(conn.channels)
       THEN conn' = [conn EXCEPT !.pc = "body"]
       ELSE \E ok \in BOOLEAN :
               conn' = [ conn EXCEPT
                           !.channels[conn.k].connection = TRUE,
                           !.k = IF ok THEN @ + 1 ELSE @,
                           !.pc = IF ok THEN "apply" ELSE "left",
                           !.raised = IF ok THEN "" ELSE "apply_settings" ]
    /\ UNCHANGED other_vars

\* the with-block (measurements/iv.py:79-88): device.channels[0].enable() and
\* the measurement, which returns or raises; either way the generator goes
\* on in its finally clause
connect_body ==
    /\ conn.pc = "body"
    /\ \E ok \in BOOLEAN :
          conn' = [ conn EXCEPT
                      !.channels[1].enabled = TRUE,
                      !.pending = IF ok THEN "" ELSE "body",
                      !.pc = "disable", !.k = 1 ]
    /\ UNCHANGED other_vars

\* finally: for channel in self._channels: channel.disable();
\* channel._connection = None. disable() writes to the device and may raise,
\* which leaves the finally clause
connect_disable ==
    /\ conn.pc = "disable"
    /\ IF conn.k > Len(conn.channels)
       THEN conn' = [conn EXCEPT !.pc = "close"]
       ELSE \E ok \in BOOLEAN :
               conn' = IF ok
                       THEN [ conn EXCEPT !.channels[conn.k] =
                                            [connection |-> FALSE, enabled |-> FALSE,
                                             disabled |-> TRUE],
                                          !.k = @ + 1 ]
                       ELSE [ conn EXCEPT !.pc = "left", !.raised = "disable" ]
    /\ UNCHANGED other_vars

\* try: connection.close() except AttributeError: pass; then the exception
\* of the with-block, if there was one, goes on to the caller
connect_close ==
    /\ conn.pc = "close"
    /\ conn' = [ conn EXCEPT !.connection = IF conn.closable THEN "closed" ELSE @,
                             !.pc = "left", !.raised = conn.pending ]
    /\ UNCHANGED other_vars

ConnectNext ==
    \/ \E device \in Devices, closable \in BOOLEAN : connect_establish(device, closable)
    \/ connect_apply
    \/ connect_body
    \/ connect_disable
    \/ connect_close

ConnectSpec == Init /\ [][ConnectNext]_vars

(***************************************************************************)
(* Properties                                                              *)
(*                                                                         *)
(* A command has returned, and no other was issued since, when the         *)
(* controller is idle; `call` then describes that command.  late = "no"    *)
(* restricts a property to the behaviours in which no worker took a step   *)
(* after abort() had written ABORTED for it.                               *)
(***************************************************************************)
Returned(op) == ctl.pc = "idle" /\ call.op = op

\* C1: a command the transition table does not allow in the state it is
\* called in (setup in READY or RUNNING; start in INITIAL, RUNNING, FINISHED
\* or ABORTED; abort in INITIAL, FINISHED or ABORTED; preview in RUNNING)
\* raises StateError, and raising leaves the state as it is
C1_DisallowedRaisesStateError ==
    [][ ( /\ ctl.pc \in {"setup_raise", "start_raise", "preview_raise", "abort_raise"}
          /\ ctl'.pc = "idle"
          /\ late' = "no" )
        => (raised' = "StateError" /\ state' = state) ]_vars

\* setup() was called in RUNNING and raised KeyError, no aborted worker involved
C1_KeyErrorRaised ==
    /\ Returned("setup")
    /\ call.state = "RUNNING"
    /\ raised = "KeyError"
    /\ late = "no"

\* C2: once abort() called in state RUNNING has returned, and until the next
\* command is issued, the state is ABORTED
C2_AbortedUnconditionally ==
    (Returned("abort") /\ call.state = "RUNNING") => state = "ABORTED"

\* abort() called in RUNNING has returned and the worker has since written FINISHED
C2_FinishedOverAborted ==
    /\ Returned("abort")
    /\ call.state = "RUNNING"
    /\ raised = ""
    /\ state = "FINISHED"
    /\ late = "after"

\* C3: once abort() called in state RUNNING has returned, no worker process
\* takes a further step (no select_pixel, run or save_data, no write to the
\* state or to current_pixel_idx)
C3_WorkerTerminated ==
    [][ (Returned("abort") /\ call.state = "RUNNING")
        => ~ \E i \in Slots : Worker(i) ]_vars

\* abort() called in RUNNING has returned and the aborted worker has since
\* stored an array
C3_SavedAfterAbort ==
    /\ Returned("abort")
    /\ call.state = "RUNNING"
    /\ late = "after"
    /\ \E p \in DOMAIN db_file : db_file[p].kind = "data" /\ p \notin DOMAIN call.file

\* start() has returned after spawning the worker of a full run
Started == Returned("start") /\ call.state = "READY" /\ raised = ""

\* C4: after start() succeeded in READY, with the worker scheduled fairly,
\* the state eventually becomes FINISHED unless select_pixel, measurement.run
\* or save_data raises in the worker or the controller calls abort()
C4_FullRunFinishes ==
    Started ~> (state = "FINISHED" \/ exitcode = "error" \/ call.op = "abort" \/ late # "no")

\* a full run of two pixels, started right after setup(), has ended in FINISHED
C4_RunFinished ==
    /\ state = "FINISHED"
    /\ exitcode = "ok"
    /\ Returned("start")
    /\ call.prev.op = "setup"
    /\ Len(experiment.selected_pixels) = 2

\* C5: whenever the state is FINISHED, the leaf that the setup() before the
\* run established, which is `dataset` between commands, holds for every
\* selected pixel exactly the array measurement.run returned for it, which
\* load_data returns, and it holds nothing for any other pixel
C5_FinishedLeafHoldsRun ==
    (state = "FINISHED" /\ late = "no")
    => /\ run.dataset # None
       /\ run.dataset \in DOMAIN db_file
       /\ ctl.pc = "idle" => dataset = run.dataset
       /\ Keys(db_file, run.dataset) = { <<p>> : p \in Range(experiment.selected_pixels) }
       /\ DOMAIN run.returned = Range(experiment.selected_pixels)
       /\ \A p \in Range(experiment.selected_pixels) :
             /\ CanLoad(db_file, run.dataset, p)
             /\ load_data(db_file, run.dataset, p) = run.returned[p]

\* FINISHED with two pixels whose arrays differ, the run's leaf the second of the file
C5_TwoArraysStored ==
    /\ state = "FINISHED"
    /\ late = "no"
    /\ ctl.pc = "idle"
    /\ experiment.selected_pixels = <<"0", "1">>
    /\ run.returned["0"] # run.returned["1"]
    /\ Cardinality(filter_by_sample_id(db_file, experiment.sample_id)) = 2

\* C6: setup() called in INITIAL, FINISHED or ABORTED that returns normally
\* ends in READY with current_pixel_idx = -1 and with `dataset` the path
\* /{measurement name}/{settings key}/{timestamp}-{sample id} of a leaf the
\* call newly registered, {timestamp} being the Database's last timestamp
C6_SetupRegisters ==
    ( /\ Returned("setup")
      /\ call.state \in {"INITIAL", "FINISHED", "ABORTED"}
      /\ raised = ""
      /\ late = "no" )
    => /\ state = "READY"
       /\ current_pixel_idx = -1
       /\ dataset = << <<experiment.measurement.name>>,
                       parse_settings_hash(experiment.measurement.settings),
                       Isoformat(db_timestamp) \o <<"-">> \o experiment.sample_id >>
       /\ dataset \in DOMAIN db_file
       /\ db_file[dataset].kind = "group"
       /\ dataset \notin DOMAIN call.file
       /\ dataset \in filter_by_sample_id(db_file, experiment.sample_id)
       /\ dataset \notin filter_by_sample_id(call.file, experiment.sample_id)

\* setup() called in FINISHED has returned: a second leaf beside the first
C6_SetupAgain ==
    /\ Returned("setup")
    /\ call.state = "FINISHED"
    /\ raised = ""
    /\ late = "no"
    /\ state = "READY"
    /\ call.dataset \in DOMAIN db_file
    /\ dataset # call.dataset

\* C7: setup() followed immediately by abort() leaves the state INITIAL,
\* current_pixel_idx at -2 and `dataset` cleared, and the path setup()
\* registered is no longer in filter_by_sample_id(sample_id)
C7_AbortBeforeWrite ==
    ( /\ Returned("abort")
      /\ call.state = "READY"
      /\ call.prev = [op |-> "setup", raised |-> ""]
      /\ late = "no" )
    => /\ state = "INITIAL"
       /\ current_pixel_idx = -2
       /\ dataset = None
       /\ call.dataset \notin filter_by_sample_id(db_file, experiment.sample_id)

\* abort() right after setup() raised KeyError and left the dataset registered
C7_AbortRaisedKeyError ==
    /\ Returned("abort")
    /\ call.state = "READY"
    /\ call.prev = [op |-> "setup", raised |-> ""]
    /\ late = "no"
    /\ raised = "KeyError"
    /\ state = "READY"
    /\ dataset \in filter_by_sample_id(db_file, experiment.sample_id)

C9_PreviewRejectsPixel ==
    [][ /\ ( /\ calls' = calls + 1
             /\ call'.op = "preview"
             /\ call'.state # "RUNNING"
             /\ call'.pixel \notin Range(experiment.interface.pixel_ids) )
           => /\ raised' = "CompatibilityError"
              /\ ctl' = Idle
              /\ state' = state
              /\ current_pixel_idx' = current_pixel_idx
              /\ workers' = workers
              /\ process' = process
              /\ dataset' = dataset
              /\ db_file' = db_file
        /\ ( /\ calls' = calls + 1
             /\ call'.op = "preview"
             /\ call'.state # "RUNNING"
             /\ call'.pixel \in Range(experiment.interface.pixel_ids)
             /\ call'.prev = [op |-> "preview", raised |-> "CompatibilityError"] )
           => /\ raised' = ""
              /\ ctl'.pc = "preview_prev"
      ]_vars

\* a preview of a valid pixel was accepted right after one was rejected
C9_AcceptedAfterRejected ==
    /\ call.op = "preview"
    /\ call.prev = [op |-> "preview", raised |-> "CompatibilityError"]
    /\ call.state = "READY"
    /\ ctl.pc = "preview_prev"

\* C10: Experiment construction succeeds if and only if (a) the interface's
\* and the measurement's interface_type are the same, (b) the device has at
\* least len(required_channels) channels, (c) each of these channels is an
\* instance of a class of required_channels at its index and (d) every
\* selected pixel is of the interface; otherwise it raises
\* CompatibilityError, no Experiment exists and the Database is untouched
C10_CompatibilityGate ==
    ctor_args # NoArgs =>
      LET a        == ctor_args
          required == a.measurement.required_channels
          pixels   == IF a.selected_pixels = NoSelection THEN a.interface.pixel_ids
                      ELSE a.selected_pixels
          ok       == /\ a.interface.interface_type = a.measurement.interface_type
                      /\ Len(a.device.channels) >= Len(required)
                      /\ \A i \in 1..Len(required) :
                            \E cls \in required[i] : cls \in ChannelMro[a.device.channels[i]]
                      /\ \A k \in 1..Len(pixels) :
                            \E j \in 1..Len(a.interface.pixel_ids) :
                               a.interface.pixel_ids[j] = pixels[k]
      IN  /\ experiment.constructed <=> ok
          /\ experiment.constructed =>
                /\ experiment.selected_pixels = pixels
                /\ experiment.device = a.device
                /\ experiment.measurement = a.measurement
                /\ experiment.interface = a.interface
          /\ ~experiment.constructed =>
                /\ raised = "CompatibilityError"
                /\ experiment = NoExperiment
                /\ db_file = NewFile
                /\ db_timestamp = 0
                /\ state = "INITIAL"
                /\ dataset = None
                /\ process = 0

\* a construction refused for its second channel only
C10_ChannelRefused ==
    /\ ctor_args # NoArgs
    /\ ~experiment.constructed
    /\ raised = "CompatibilityError"
    /\ ctor_args.device.name = "DemoDevice"
    /\ ctor_args.measurement.name = "DemoMeasurement2"
    /\ ctor_args.interface.name = "DemoInterface"
    /\ ctor_args.selected_pixels = NoSelection

\* C11: in every state, the pixel ids for which save_data was performed on a
\* dataset, in the order of the saves, are a prefix of selected_pixels; this
\* holds for every dataset setup() registered, the current one included, and
\* also when the run on it was aborted part-way
C11_SavedInSelectedOrder ==
    \A d \in DOMAIN leaves :
        /\ IsPrefix(leaves[d], experiment.selected_pixels)
        /\ d \in DOMAIN db_file => Keys(db_file, d) = { <<p>> : p \in Range(leaves[d]) }

\* a run of two pixels was aborted after its first save and before its second
C11_AbortedAfterFirstSave ==
    /\ Returned("abort")
    /\ call.state = "RUNNING"
    /\ experiment.selected_pixels = <<"0", "1">>
    /\ dataset \in DOMAIN leaves
    /\ leaves[dataset] = <<"0">>
    /\ \A i \in Slots : ~Alive(i)

\* C12: whenever the worker of a full run is selecting, measuring or saving
\* the pixel at position i (from 0) of selected_pixels, current_pixel_idx is i
C12_IndexOfPixelInFlight ==
    \A i \in Slots :
        ( /\ workers[i].kind = "execute"
          /\ workers[i].pc \in {"select", "run", "save"}
          /\ ~workers[i].aborted
          /\ late = "no" )
        => current_pixel_idx = workers[i].pos - 1

\* a run started after abort() failed in READY measures its first pixel
\* while current_pixel_idx is -1
C12_FirstPixelAtMinusOne ==
    /\ Returned("start")
    /\ call.prev = [op |-> "abort", raised |-> "KeyError"]
    /\ late = "no"
    /\ \E i \in Slots :
          /\ workers[i].kind = "execute"
          /\ workers[i].pc = "run"
          /\ workers[i].pos = 1
          /\ ~workers[i].aborted
    /\ current_pixel_idx = -1

\* C13: when the state is FINISHED as the result of a full run (a successful
\* start() was the last command and the run's worker wrote FINISHED), current_pixel_idx
\* is len(selected_pixels), whatever commands preceded that start()
C13_FinishedIndexIsLength ==
    (state = "FINISHED" /\ Started /\ exitcode = "ok" /\ late = "no")
    => current_pixel_idx = Len(experiment.selected_pixels)

\* a run started after abort() failed in READY has finished one short
C13_FinishedOneShort ==
    /\ state = "FINISHED"
    /\ Started
    /\ exitcode = "ok"
    /\ late = "no"
    /\ call.prev = [op |-> "abort", raised |-> "KeyError"]
    /\ Len(experiment.selected_pixels) = 2
    /\ current_pixel_idx = 1

WorkerFailed == exitcode = "error" /\ state = "RUNNING"

\* C15: an error escaping the worker of a full run or a preview ends the
\* worker and leaves the state RUNNING; from then on setup(), start() and
\* preview() raise StateError and the state changes only by abort(), which
\* returns normally with the state ABORTED
C15_ErrorLeavesRunning ==
    [][ /\ (exitcode # "error" /\ exitcode' = "error" /\ state = "RUNNING" /\ late' = "no")
           => /\ state' = "RUNNING"
              /\ workers'[process'] = NoWorker
        /\ (WorkerFailed /\ late' = "no")
           => /\ \/ state' = "RUNNING"
                 \/ call.op = "abort" /\ ctl.pc = "abort_aborted" /\ state' = "ABORTED"
              /\ (calls' = calls + 1 /\ call'.op # "abort")
                    => ctl'.pc \in {"setup_raise", "start_raise", "preview_raise"}
              /\ (calls' = calls + 1 /\ call'.op = "abort") => ctl'.pc = "abort_ready"
              /\ (ctl.pc \in {"setup_raise", "start_raise", "preview_raise"} /\ ctl'.pc = "idle")
                    => raised' = "StateError"
        /\ (exitcode = "error" /\ ctl.pc = "abort_terminate" /\ ctl'.pc = "idle" /\ late' = "no")
           => state' = "ABORTED" /\ raised' = ""
      ]_vars

\* after the worker of a full run failed, setup() was refused and abort()
\* then made the state ABORTED
C15_AbortedAfterError ==
    /\ Returned("abort")
    /\ call.state = "RUNNING"
    /\ call.prev = [op |-> "setup", raised |-> "StateError"]
    /\ exitcode = "error"
    /\ run.dataset # None
    /\ state = "ABORTED"
    /\ raised = ""
    /\ late = "no"

\* C16: when initialize_dataset fails during setup(), setup() raises the
\* error and the state is what it was when setup() was called (INITIAL,
\* FINISHED or ABORTED), not READY
C16_FailedSetupKeepsState ==
    [][ (ctl.pc = "setup_init" /\ ctl'.pc = "idle" /\ late' = "no")
        => /\ raised' = "OSError"
           /\ state' = call.state
           /\ state' \in {"INITIAL", "FINISHED", "ABORTED"}
           /\ dataset' = dataset ]_vars

\* setup() failed in the Database after a finished run
C16_SetupFailedInFinished ==
    /\ Returned("setup")
    /\ call.state = "FINISHED"
    /\ raised = "OSError"
    /\ state = "FINISHED"
    /\ late = "no"

\* C17: the controller is never in a mutating Database operation
\* (initialize_dataset in setup(), delete_dataset in abort()) while a worker
\* process whose next step is save_data is alive
C17_SingleWriter ==
    (ctl.pc = "setup_init" \/ (ctl.pc = "abort_delete" /\ dataset # None))
    => ~ \E i \in Slots :
            workers[i].kind = "execute" /\ workers[i].pc = "save" /\ CanStep(i)

\* setup() called right after abort() of a running experiment has returned,
\* and the aborted worker stored an array while setup() was under way
C17_SavedDuringSetup ==
    /\ Returned("setup")
    /\ call.state = "ABORTED"
    /\ call.prev = [op |-> "abort", raised |-> ""]
    /\ raised = ""
    /\ \E p \in DOMAIN db_file : db_file[p].kind = "data" /\ p \notin DOMAIN call.file

\* C18: at most one worker process spawned by the Experiment is alive
C18_SingleWorker == Cardinality({i \in Slots : Alive(i)}) <= 1

\* preview() called after abort() of a running experiment has spawned its
\* worker while the worker of the aborted run, sent SIGTERM, is still alive
C18_PreviewBesideAbortedRun ==
    /\ Returned("preview")
    /\ call.state = "ABORTED"
    /\ call.prev = [op |-> "abort", raised |-> ""]
    /\ \E i, j \in Slots :
          /\ workers[i].kind = "execute" /\ workers[i].signalled
          /\ workers[j].kind = "preview" /\ j = process

\* C19: every initialize_dataset, as called by setup(), returns a path that
\* no earlier call returned and that is not in the file, and it keeps every
\* group, link and pixel array the file held, unchanged
C19_NewLeafEachSetup ==
    [][ (ctl.pc = "setup_init" /\ ctl'.pc = "setup_state")
        => /\ dataset' \notin DOMAIN leaves
           /\ dataset' \notin DOMAIN db_file
           /\ dataset' \in DOMAIN db_file'
           /\ DOMAIN leaves' = DOMAIN leaves \cup {dataset'}
           /\ \A q \in DOMAIN db_file : q \in DOMAIN db_file' /\ db_file'[q] = db_file[q]
           /\ \A d \in DOMAIN leaves : leaves'[d] = leaves[d] ]_vars

\* setup() re-entered after a finished run: two leaves of the same metadata,
\* the first still holding its arrays
C19_TwoLeavesKept ==
    /\ Returned("setup")
    /\ call.state = "FINISHED"
    /\ raised = ""
    /\ Cardinality(DOMAIN leaves) = 2
    /\ DOMAIN leaves \subseteq DOMAIN db_file
    /\ leaves[call.dataset] = <<"0", "1">>
    /\ leaves[dataset] = << >>
    /\ Keys(db_file, call.dataset) = { <<"0">>, <<"1">> }

\* C20: a preview performs no Database operation: no step of preview() and
\* no step of a preview worker changes the file or the Database's timestamp,
\* and from the return of a preview() called in a state other than RUNNING
\* until the next command the file (dataset leaves, sample index, pixel
\* arrays) is the one preview() was called with
C20_PreviewPersistsNothing ==
    [][ /\ ( \/ calls' = calls + 1 /\ call'.op = "preview"
             \/ /\ ctl.pc \in {"preview_raise", "preview_prev", "preview_idx",
                                "preview_state", "preview_spawn"}
                /\ ctl' # ctl
             \/ \E i \in Slots : workers[i].kind = "preview" /\ workers'[i] # workers[i] )
           => /\ db_file' = db_file
              /\ db_timestamp' = db_timestamp
              /\ dataset' = dataset
        /\ ( /\ ctl'.pc = "idle"
             /\ call'.op = "preview"
             /\ call'.state # "RUNNING"
             /\ late' = "no" )
           => db_file' = call'.file
      ]_vars

\* a preview called after a finished run has completed; the stored arrays
\* are as they were
C20_PreviewedAfterRun ==
    /\ Returned("preview")
    /\ call.state = "FINISHED"
    /\ exitcode = "ok"
    /\ state = "INITIAL"
    /\ late = "no"
    /\ db_file = call.file
    /\ \E q \in DOMAIN db_file : db_file[q].kind = "data"

(***************************************************************************)
(* The Database used directly (DbSpec)                                     *)
(***************************************************************************)
\* the number a symbol of an ISO string stands for: its fields are of fixed
\* width and zero-padded, so they compare as their numbers do
Rank(symbol) ==
    CHOOSE n \in 0..MaxClock : symbol \in {"T" \o ToString(n), "." \o ToString(n)}

\* a < b for two ISO strings: the first symbol in which they differ decides,
\* and a proper prefix is smaller
RECURSIVE LexLess(_, _)
LexLess(a, b) ==
    IF a = << >> THEN b # << >>
    ELSE IF b = << >> THEN FALSE
    ELSE IF a[1] = b[1] THEN LexLess(Tail(a), Tail(b))
    ELSE Rank(a[1]) < Rank(b[1])

Undeleted(sample_id) ==
    {p \in DOMAIN registered : registered[p].m.sample_id = sample_id /\ ~registered[p].deleted}

\* C22: after any sequence of initialize_dataset and delete_dataset calls
\* the sample index agrees with the hierarchy: for every sample id that was
\* registered, filter_by_sample_id returns exactly the paths returned for it
\* and not deleted, and every index entry points at a leaf that exists
C22_IndexConsistent ==
    \A p \in DOMAIN registered :
        LET sample_id == registered[p].m.sample_id
        IN  /\ filter_by_sample_id(db_file, sample_id) = Undeleted(sample_id)
            /\ \A q \in filter_by_sample_id(db_file, sample_id) :
                  q \in DOMAIN db_file /\ db_file[q].kind = "group"

\* delete_dataset returned without an exception and the index of the
\* sample lacks a leaf that is still in the file
C22_LeafLostFromIndex ==
    /\ db_call.op = "delete_dataset" /\ raised = ""
    /\ \E p \in DOMAIN registered :
          /\ ~registered[p].deleted /\ p \in DOMAIN db_file
          /\ p \notin filter_by_sample_id(db_file, registered[p].m.sample_id)

\* the sample-index entry of the leaf p that initialize_dataset returned
OwnLink(p) ==
    LET last      == p[Len(p)]
        sample_id == registered[p].m.sample_id
    IN  << SAMPLES, sample_id, Take(last, Len(last) - Len(sample_id) - 1) >>

\* C23: delete_dataset(p), for a path p that initialize_dataset returned and
\* that is not deleted yet, removes the leaf p and its own sample-index entry
\* and leaves every other node of the file as it was
C23_DeleteRemovesOwn ==
    [][ ( /\ db_call'.op = "delete_dataset"
          /\ calls' = calls + 1
          /\ ~registered[db_call'.dataset].deleted )
        => db_file' = Delete(Delete(db_file, OwnLink(db_call'.dataset)), db_call'.dataset) ]_vars

\* delete_dataset of a registered leaf raised KeyError; the leaf and its
\* index entry are still in the file
C23_DeleteRaisedKeyError ==
    /\ db_call.op = "delete_dataset" /\ raised = "KeyError"
    /\ ~registered[db_call.dataset].deleted
    /\ db_call.dataset \in DOMAIN db_file
    /\ OwnLink(db_call.dataset) \in DOMAIN db_file

\* C24: save_data under a dataset path that is not in the file, never
\* registered or deleted, raises and leaves the file as it was
C24_SaveNeedsDataset ==
    [][ ( /\ db_call'.op = "save_data"
          /\ calls' = calls + 1
          /\ db_call'.dataset \notin DOMAIN db_file )
        => raised' # "" /\ db_file' = db_file ]_vars

\* save_data under a path that was never registered returned, and the
\* array can be loaded from there
C24_SavedUnderUnregistered ==
    /\ db_call.op = "save_data" /\ raised = ""
    /\ db_call.dataset = UnregisteredPath
    /\ db_call.dataset \notin DOMAIN db_call.file
    /\ CanLoad(db_file, db_call.dataset, db_call.pixel)
    /\ load_data(db_file, db_call.dataset, db_call.pixel) = db_call.data

\* C25: save_data for a pixel id that has an array under the dataset path
\* raises ValueError and overwrites nothing: load_data returns the array
\* stored first, and the file is as it was
C25_NoOverwrite ==
    [][ ( /\ db_call'.op = "save_data"
          /\ calls' = calls + 1
          /\ CanLoad(db_file, db_call'.dataset, db_call'.pixel) )
        => /\ raised' = "ValueError"
           /\ db_file' = db_file
           /\ load_data(db_file', db_call'.dataset, db_call'.pixel)
                = load_data(db_file, db_call'.dataset, db_call'.pixel) ]_vars

\* a second save for the pixel of a registered leaf, with another array,
\* was refused; the first array is still the one stored
C25_SecondSaveRefused ==
    /\ db_call.op = "save_data" /\ raised = "ValueError"
    /\ db_call.dataset \in DOMAIN registered
    /\ CanLoad(db_file, db_call.dataset, db_call.pixel)
    /\ load_data(db_file, db_call.dataset, db_call.pixel) # db_call.data

\* a dict given as a list of pairs, as the mapping it is
AsMapping(settings) ==
    [k \in {settings[i][1] : i \in DOMAIN settings} |->
        settings[CHOOSE i \in DOMAIN settings : settings[i][1] = k][2]]

\* the loaded Metadata r equals m in every field a caller supplies
SameFields(r, m) ==
    /\ r.measurement = m.measurement
    /\ r.measurement_settings = AsMapping(m.measurement_settings)
    /\ r.sample_id = m.sample_id
    /\ r.device = m.device
    /\ r.channels = m.channels
    /\ r.channels_settings = [i \in DOMAIN m.channels_settings |-> AsMapping(m.channels_settings[i])]
    /\ r.interface = m.interface
    /\ r.pixel_ids = m.pixel_ids
    /\ r.dcmi.description = m.dcmi.description

\* C26: load_metadata of the path initialize_dataset(m) returned yields a
\* Metadata equal to m in every field: names, settings, channels and their
\* settings, layout, and the descriptive fields the caller supplied
C26_RoundTrip ==
    [][ ( /\ db_call'.op = "load_metadata"
          /\ calls' = calls + 1
          /\ db_call'.dataset \in DOMAIN registered
          /\ ~registered[db_call'.dataset].deleted
          /\ db_call.op = "initialize_dataset"
          /\ db_call.returned = db_call'.dataset )
        => /\ raised' = ""
           /\ SameFields(db_call'.returned, registered[db_call'.dataset].m) ]_vars

\* load_metadata returned a Metadata whose description is the default and
\* not the one the caller had given
C26_DescriptionLost ==
    /\ db_call.op = "load_metadata" /\ raised = ""
    /\ db_call.dataset \in DOMAIN registered
    /\ registered[db_call.dataset].m.dcmi.description = <<"X">>
    /\ db_call.returned.dcmi.description = NoDescription

\* C27: the settings key is a function of the settings mapping, and two
\* mappings that differ in a key or a value have different keys (the digest
\* of a pair being free of collisions)
C27_KeysDistinct ==
    \A p \in DOMAIN registered : \A q \in DOMAIN registered :
        LET a == registered[p].m
            b == registered[q].m
        IN  /\ a.settings_hash = parse_settings_hash(a.measurement_settings)
            /\ AsMapping(a.measurement_settings) # AsMapping(b.measurement_settings)
                 => a.settings_hash # b.settings_hash

\* two leaves registered with different settings lie in one settings group
C27_OneKeyTwoSettings ==
    \E p \in DOMAIN registered : \E q \in DOMAIN registered :
        /\ registered[p].m.measurement_settings # registered[q].m.measurement_settings
        /\ registered[p].m.measurement = registered[q].m.measurement
        /\ p \in DOMAIN db_file /\ q \in DOMAIN db_file
        /\ Take(p, 2) = Take(q, 2)

\* the registered, undeleted leaves of the measurement whose settings hold
\* every key/value pair of the query
SupersetMatches(measurement, settings) ==
    { p \in DOMAIN registered :
        /\ ~registered[p].deleted
        /\ registered[p].m.measurement = measurement
        /\ Range(settings) \subseteq Range(registered[p].m.measurement_settings) }

\* C28: filter_by_settings(measurement, q), for a measurement that has
\* registered datasets, returns exactly the datasets whose settings contain
\* every pair of q, for every q including the empty one; with the full
\* settings of one dataset it returns that dataset
C28_FilterIsSupersetMatch ==
    [][ ( /\ db_call'.op = "filter_by_settings"
          /\ calls' = calls + 1
          /\ \A p \in DOMAIN registered : ~registered[p].deleted
          /\ \E p \in DOMAIN registered : registered[p].m.measurement = db_call'.measurement )
        => /\ raised' = ""
           /\ db_call'.returned = SupersetMatches(db_call'.measurement, db_call'.settings) ]_vars

\* the empty query over a measurement with registered datasets returned
\* no dataset
C28_EmptyQueryFindsNothing ==
    /\ db_call.op = "filter_by_settings" /\ raised = ""
    /\ db_call.settings = << >>
    /\ SupersetMatches(db_call.measurement, db_call.settings) # {}
    /\ db_call.returned = {}

\* C29: initialize_dataset(m) leaves the Metadata m as it was before the
\* call, in every field, the descriptive ones (identifier, title, date)
\* included
C29_MetadataUnchanged ==
    [][ (db_call'.op = "initialize_dataset" /\ calls' = calls + 1)
        => db_call'.m_after = db_call'.m ]_vars

\* a Metadata object registered a second time: the new leaf carries the
\* path of the first leaf as its identifier
C29_StaleIdentifier ==
    /\ db_call.op = "initialize_dataset"
    /\ db_call.m.dcmi.identifier # None
    /\ db_call.m.dcmi.identifier # db_call.returned
    /\ db_file[db_call.returned].attrs[<<"dcmi", "_", "identifier">>] = db_call.m.dcmi.identifier

(***************************************************************************)
(* C30                                                                     *)
(***************************************************************************)
\* C30: the items an observer has got from the data stream are, in order, the
\* first of the items the workers have put into it: none is lost before a
\* later one arrives and none arrives out of order, an abort() of the worker
\* included
C30_PulledIsPrefixOfPushed == IsPrefix(pulled, pushed)

\* C30: an item a worker put is held by no process and not by the pipe and
\* the observer never got it, while the observer has got an item put later
C30_ItemLostAcrossAbort ==
    /\ \A i \in Slots : ~Alive(i)
    /\ pipe = NoItems
    /\ \E k \in Range(pushed) \ Range(pulled) : \E j \in Range(pulled) : j > k

(***************************************************************************)
(* C31                                                                     *)
(***************************************************************************)
\* select_pixel, measurement.run or save_data raised in a worker, which has
\* ended or waits for its feeder thread
WorkerRaised == exitcode = "error" \/ \E i \in Slots : workers[i].code = "error"

\* C31: with a queue attached that an observer may never read, every put of
\* the worker returns: after start() succeeded in READY, with the worker
\* scheduled fairly and nothing required of the observer, the state
\* eventually becomes FINISHED unless a device or storage call raises in the
\* worker or the controller calls abort()
C31_UnreadQueueRunFinishes ==
    Started ~> (state = "FINISHED" \/ WorkerRaised \/ call.op = "abort" \/ late # "no")

\* C31: a full run has ended in FINISHED although the observer never got an
\* item, the pipe is full and the worker still holds an item it put
C31_FinishedWithFullPipe ==
    /\ state = "FINISHED"
    /\ Returned("start")
    /\ pulled = NoItems
    /\ Len(pipe) = PipeCapacity
    /\ \E i \in Slots : workers[i].pc = "join" /\ workers[i].code = "ok" /\ buffers[i] # NoItems

(***************************************************************************)
(* C32                                                                     *)
(***************************************************************************)
\* C32: whenever control has left a connect() that had established its
\* connection, normally or through an exception, every channel of the device
\* has been disabled and has no connection reference, and a connection that
\* can be closed has been closed
C32_ReleasedOnAllExitPaths ==
    (conn.pc = "left" /\ conn.raised # "establish_connection")
    => /\ \A i \in DOMAIN conn.channels :
             conn.channels[i].disabled /\ ~conn.channels[i].connection
       /\ conn.closable => conn.connection = "closed"

\* C32: control has left connect() through the exception of the second
\* channel's disable(): that channel keeps its connection reference and the
\* connection is open
C32_LeftOpenByDisable ==
    /\ conn.pc = "left"
    /\ conn.raised = "disable"
    /\ conn.closable
    /\ Len(conn.channels) = 2
    /\ conn.channels[1].disabled
    /\ conn.channels[2].connection
    /\ conn.connection = "open"

(***************************************************************************)
(* C33                                                                     *)
(***************************************************************************)
\* C33: preview(p) called in a state other than RUNNING with p one of the
\* interface's pixel_ids is accepted, whether p is a selected pixel or not;
\* the worker it starts is given p, and keeps p when select_pixel(p) has
\* returned and the measurement runs
C33_PreviewChecksInterfaceOnly ==
    [][ /\ ( /\ calls' = calls + 1
             /\ call'.op = "preview"
             /\ state # "RUNNING"
             /\ call'.pixel \in Range(experiment.interface.pixel_ids) )
           => (raised' = "" /\ ctl'.pc = "preview_prev" /\ ctl'.pixel = call'.pixel)
        /\ (ctl.pc = "preview_spawn" /\ ctl'.pc = "idle")
           => \E i \in Slots : /\ ~Alive(i)
                                /\ workers'[i].kind = "preview"
                                /\ workers'[i].pixel = call.pixel
        /\ \A i \in Slots :
              (workers[i].kind = "preview" /\ workers[i].pc = "select" /\ workers'[i].pc = "run")
              => workers'[i].pixel = workers[i].pixel ]_vars

\* C33: the worker of a preview runs the measurement on pixel '0' of the
\* interface while the Experiment was constructed with selected_pixels ['1']
C33_PreviewOfUnselectedPixelRuns ==
    /\ experiment.constructed
    /\ experiment.selected_pixels = <<"1">>
    /\ call.op = "preview"
    /\ call.pixel = "0"
    /\ raised = ""
    /\ \E i \in Slots : /\ workers[i].kind = "preview"
                         /\ workers[i].pc = "run"
                         /\ workers[i].pixel = "0"
                         /\ "0" \in Range(experiment.interface.pixel_ids)

(***************************************************************************)
(* C34                                                                     *)
(***************************************************************************)
AbortedPreview ==
    /\ Returned("abort")
    /\ call.state = "RUNNING"
    /\ call.prev = [op |-> "preview", raised |-> ""]
    /\ late = "no"

\* C34: once abort() called in state RUNNING during a preview has returned,
\* the state is ABORTED; the leaf that `dataset` named when abort() was
\* called (the one an earlier setup() registered, when the preview was
\* started from READY) is still what `dataset` names, is in the file with
\* the members it had and is in the sample index
C34_AbortOfPreviewKeepsLeaf ==
    AbortedPreview
    => /\ state = "ABORTED"
       /\ call.dataset # None
          => /\ dataset = call.dataset
             /\ call.dataset \in DOMAIN db_file
             /\ Keys(db_file, call.dataset) = Keys(call.file, call.dataset)
             /\ call.dataset \in filter_by_sample_id(db_file, experiment.sample_id)

\* C34: setup(), preview() and abort() called in RUNNING have returned; the
\* state is INITIAL and the leaf setup() registered is deleted
C34_AbortOfPreviewDeletedLeaf ==
    /\ AbortedPreview
    /\ calls = 3
    /\ raised = ""
    /\ state = "INITIAL"
    /\ call.dataset # None
    /\ call.dataset \notin DOMAIN db_file
    /\ dataset = None

(***************************************************************************)
(* C35                                                                     *)
(***************************************************************************)
\* the settings mapping has, for every setting name of the batch, one of the
\* values listed for that name
BatchMatches(mapping, settings_batch) ==
    \A n \in DOMAIN settings_batch :
        \E j \in DOMAIN settings_batch[n][2] :
            /\ settings_batch[n][1] \in DOMAIN mapping
            /\ mapping[settings_batch[n][1]] = settings_batch[n][2][j]

\* C35: filter_by_settings_batch(measurement, batch), for a measurement that
\* has datasets, returns of the datasets registered under the measurement
\* and not deleted exactly those whose settings have, for every setting name
\* of the batch, one of the values listed for it; the empty batch returns
\* them all
C35_BatchIsOrWithinAndAcross ==
    [][ (db_call'.op = "filter_by_settings_batch" /\ calls' = calls + 1 /\ raised' = "")
        => \A p \in DOMAIN registered :
              ( /\ ~registered[p].deleted
                /\ p \in DOMAIN db_file
                /\ registered[p].m.measurement = db_call'.measurement )
              => ( p \in db_call'.returned
                   <=> BatchMatches(AsMapping(registered[p].m.measurement_settings),
                                    db_call'.settings_batch) ) ]_vars

\* C35: the batch {'a': [12]} has returned the dataset registered with the
\* settings {'a1': 2}
C35_BatchReturnedOtherSetting ==
    /\ db_call.op = "filter_by_settings_batch"
    /\ raised = ""
    /\ db_call.settings_batch = << << <<"a">>, <<12>> >> >>
    /\ \E p \in db_call.returned :
          /\ p \in DOMAIN registered
          /\ registered[p].m.measurement_settings = << << <<"a", "1">>, 2 >> >>

(***************************************************************************)
(* C36                                                                     *)
(***************************************************************************)
\* C36: whenever the state is RUNNING and current_pixel_idx is not negative,
\* current_pixel_idx is less than len(selected_pixels), so that
\* selected_pixels[current_pixel_idx] is defined for whoever reads the two
\* values at that moment
C36_IndexInRangeWhileRunning ==
    (experiment.constructed /\ state = "RUNNING" /\ current_pixel_idx >= 0)
    => current_pixel_idx < Len(experiment.selected_pixels)

\* C36: the worker of a full run started right after setup() has written the
\* index after its last pixel and not yet FINISHED: the state is RUNNING and
\* current_pixel_idx is len(selected_pixels)
C36_IndexPastEndWhileRunning ==
    /\ Started
    /\ call.prev = [op |-> "setup", raised |-> ""]
    /\ late = "no"
    /\ state = "RUNNING"
    /\ current_pixel_idx = Len(experiment.selected_pixels)
    /\ \E i \in Slots : workers[i].kind = "execute" /\ workers[i].pc = "fin_state"

(***************************************************************************)
(* C37                                                                     *)
(***************************************************************************)
\* C37: between commands, whether they returned or raised, the state INITIAL
\* goes with current_pixel_idx = -2 and the state READY with
\* current_pixel_idx = -1
C37_StateAndIndexCoupled ==
    (experiment.constructed /\ ctl.pc = "idle" /\ late = "no")
    => /\ state = "INITIAL" => current_pixel_idx = -2
       /\ state = "READY" => current_pixel_idx = -1

\* C37: abort() called in READY has raised the KeyError of delete_dataset
\* after resetting the index: the state is READY and current_pixel_idx is -2
C37_ReadyWithIndexReset ==
    /\ Returned("abort")
    /\ call.state = "READY"
    /\ raised = "KeyError"
    /\ late = "no"
    /\ state = "READY"
    /\ current_pixel_idx = -2
    /\ \A i \in Slots : ~Alive(i)

(***************************************************************************)
(* C38                                                                     *)
(***************************************************************************)
\* what the read methods of the Database return for the file f, as far as
\* the Experiment's measurement and sample are concerned
Observed(f) ==
    [ sample_ids   |-> get_sample_ids(f),
      measurements |-> get_measurements(f),
      filters      |-> [m \in get_measurements(f) |-> get_filters(f, m)],
      by_settings  |-> filter_by_settings(f, experiment.measurement.name,
                                          experiment.measurement.settings),
      by_sample_id |-> IF experiment.sample_id \in get_sample_ids(f)
                       THEN filter_by_sample_id(f, experiment.sample_id)
                       ELSE "KeyError" ]

\* C38: once an abort() that directly follows a successful setup() has
\* returned, the sample ids, the measurements, the filters of every
\* measurement and the results of filter_by_settings and filter_by_sample_id
\* are what they were when that setup() was called
C38_SetupAbortRollsBack ==
    ( /\ Returned("abort")
      /\ call.state = "READY"
      /\ call.prev = [op |-> "setup", raised |-> ""]
      /\ raised = ""
      /\ late = "no" )
    => Observed(db_file) = Observed(call.before)

\* C38: setup() and abort() on a new file have returned; the leaf is gone,
\* and the file lists the sample id and the measurement with its filter
\* values, which it did not before
C38_GroupsLeftBehind ==
    /\ Returned("abort")
    /\ call.state = "READY"
    /\ call.prev = [op |-> "setup", raised |-> ""]
    /\ raised = ""
    /\ late = "no"
    /\ call.before = NewFile
    /\ state = "INITIAL"
    /\ call.dataset \notin DOMAIN db_file
    /\ get_sample_ids(db_file) = {experiment.sample_id}
    /\ get_measurements(db_file) = { <<experiment.measurement.name>> }
    /\ get_filters(db_file, <<experiment.measurement.name>>).filters # << >>


(***************************************************************************)
(* C39                                                                     *)
(***************************************************************************)
\* C39: whenever a worker is about to call interface.select_pixel(p), in a
\* full run (p is the pixel of the loop over selected_pixels) or in a preview
\* (p is the argument of preview), p is one of the interface's pixel_ids, so
\* the call does not raise ValueError
C39_WorkerSelectsKnownPixel ==
    \A i \in Slots :
        /\ (workers[i].kind = "execute" /\ workers[i].pc = "select")
              => /\ workers[i].pos \in 1..Len(experiment.selected_pixels)
                 /\ ~select_pixel(experiment.selected_pixels[workers[i].pos])
        /\ (workers[i].kind = "preview" /\ workers[i].pc = "select")
              => ~select_pixel(workers[i].pixel)

\* C39: the worker of a full run over the default selection has passed
\* select_pixel for the second pixel of the interface and is at
\* measurement.run
C39_SecondPixelSelected ==
    /\ experiment.constructed
    /\ ctor_args.selected_pixels = NoSelection
    /\ \E i \in Slots : /\ workers[i].kind = "execute"
                         /\ workers[i].pc = "run"
                         /\ workers[i].pos = 2
                         /\ experiment.selected_pixels[2] = "1"
                         /\ ~select_pixel("1")


(***************************************************************************)
(* C40                                                                     *)
(***************************************************************************)
RaisePcs == {"setup_raise", "start_raise", "preview_raise", "abort_raise"}

\* C40: the steps of a command that is rejected, which are its guard failing,
\* its raise of StateError and preview's raise of CompatibilityError, leave
\* current_pixel_idx, dataset, the process handle and the contents of the
\* Database as they are; and once a command called outside RUNNING has raised
\* one of the two errors, with no worker acting late, dataset and the
\* contents of the Database are what they were when it was called
C40_RejectedCommandChangesNothing ==
    /\ []( ( /\ ctl.pc = "idle" /\ call.op # ""
             /\ raised \in {"StateError", "CompatibilityError"}
             /\ call.state # "RUNNING"
             /\ late = "no" )
           => (dataset = call.dataset /\ db_file = call.file) )
    /\ [][ ( \/ (ctl.pc = "idle" /\ ctl'.pc \in RaisePcs)
             \/ (ctl.pc \in RaisePcs /\ ctl'.pc = "idle" /\ raised' = "StateError")
             \/ (calls' = calls + 1 /\ raised' = "CompatibilityError") )
           => /\ current_pixel_idx' = current_pixel_idx
              /\ dataset' = dataset
              /\ process' = process
              /\ db_file' = db_file ]_vars

\* C40: a start() called in FINISHED has raised StateError; the index is
\* the number of selected pixels, the dataset path is set and the file holds
\* the data of the run
C40_StartRejectedAfterRun ==
    /\ Returned("start")
    /\ call.state = "FINISHED"
    /\ raised = "StateError"
    /\ state = "FINISHED"
    /\ Len(experiment.selected_pixels) > 0
    /\ current_pixel_idx = Len(experiment.selected_pixels)
    /\ dataset # None
    /\ dataset = call.dataset
    /\ db_file = call.file
    /\ db_file # NewFile
    /\ process \in Slots
====
